---------------------------- MODULE Spec2Model ----------------------------
(***************************************************************************)
(* The conversation chunking engine of total_recall                        *)
(* (src/src/cli/chunker_engine.py, class ChunkerEngine).                   *)
(*                                                                         *)
(* A text is a sequence of one-character strings.  json.dumps is modelled  *)
(* by the character sequence it produces for the records of the model      *)
(* (default separators ", " and ": ", escaping of the quote and the        *)
(* backslash), count_tokens by the integer division of its length by 4.    *)
(* Each strategy is a state machine with one action per loop iteration;    *)
(* process_file loads a file, calls a strategy and writes the result.      *)
(* Two names that hold one list are modelled by the position of the chunk  *)
(* that holds the list (chunk_alias, temp_alias).                          *)
(*                                                                         *)
(* Further specifications: SpecTokens calls count_tokens by itself,        *)
(* SpecPair runs two calls of process_file side by side, SpecTasks and     *)
(* SpecExport run the injection, processing and export endpoints of the    *)
(* API (src/api/app/api/endpoints) with their background tasks.            *)
(***************************************************************************)
EXTENDS Integers, Sequences, FiniteSets, TLC

(***************************************************************************)
(* Bounds of the model.                                                    *)
(***************************************************************************)
MaxConvs == 3
MaxMsgs == 3
MaxText == 7
MaxIds == 2

(***************************************************************************)
(* Texts.                                                                  *)
(***************************************************************************)
Rep(c, n) == [p \in 1..n |-> c]

RECURSIVE Concat(_)
Concat(ss) == IF ss = <<>> THEN <<>> ELSE Head(ss) \o Concat(Tail(ss))

RECURSIVE SumSeq(_)
SumSeq(ns) == IF ns = <<>> THEN 0 ELSE Head(ns) + SumSeq(Tail(ns))

UpperLetters == <<"A","B","C","D","E","F","G","H","I","J","K","L","M",
                  "N","O","P","Q","R","S","T","U","V","W","X","Y","Z">>
LowerLetters == <<"a","b","c","d","e","f","g","h","i","j","k","l","m",
                  "n","o","p","q","r","s","t","u","v","w","x","y","z">>
Digits == <<"0","1","2","3","4","5","6","7","8","9">>

Range(s) == {s[p] : p \in DOMAIN s}

\* str.lower() on one character, then on a text
LowerChar(c) ==
    IF c \in Range(UpperLetters)
    THEN LowerLetters[CHOOSE p \in DOMAIN UpperLetters : UpperLetters[p] = c]
    ELSE c
Lower(t) == [p \in DOMAIN t |-> LowerChar(t[p])]

\* the characters the regular expression class \w matches
IsWordChar(c) ==
    c \in Range(UpperLetters) \cup Range(LowerLetters) \cup Range(Digits) \cup {"_"}

\* set(re.findall(r'\w+', t)): the maximal runs of word characters of t
WordSet(t) ==
    { SubSeq(t, a, b) : <<a, b>> \in
        { ab \in (DOMAIN t) \X (DOMAIN t) :
            /\ ab[1] <= ab[2]
            /\ \A p \in ab[1]..ab[2] : IsWordChar(t[p])
            /\ ab[1] = 1 \/ ~IsWordChar(t[ab[1] - 1])
            /\ ab[2] = Len(t) \/ ~IsWordChar(t[ab[2] + 1]) } }

(***************************************************************************)
(* json.dumps, for the records of the model.                               *)
(***************************************************************************)
Quote == "\""
Backslash == "\\"

NeedsEscape(c) == c \in {Quote, Backslash}

RECURSIVE EscapeRange(_, _, _)
EscapeRange(t, lo, hi) ==
    IF lo > hi THEN <<>>
    ELSE IF lo = hi
         THEN (IF NeedsEscape(t[lo]) THEN <<Backslash, t[lo]>> ELSE <<t[lo]>>)
         ELSE LET mid == (lo + hi) \div 2
              IN  EscapeRange(t, lo, mid) \o EscapeRange(t, mid + 1, hi)

Escape(t) ==
    IF \A p \in DOMAIN t : ~NeedsEscape(t[p]) THEN t ELSE EscapeRange(t, 1, Len(t))

JsonString(t) == <<Quote>> \o Escape(t) \o <<Quote>>

JsonKey(k) == JsonString(k) \o <<":", " ">>

RECURSIVE JsonJoin(_)
JsonJoin(items) ==
    IF items = <<>> THEN <<>>
    ELSE IF Len(items) = 1 THEN Head(items)
         ELSE Head(items) \o <<",", " ">> \o JsonJoin(Tail(items))

JsonObject(items) == <<"{">> \o JsonJoin(items) \o <<"}">>
JsonArray(items) == <<"[">> \o JsonJoin(items) \o <<"]">>
JsonTrue == <<"t","r","u","e">>

KeyId == <<"i","d">>
KeyTitle == <<"t","i","t","l","e">>
KeyMessages == <<"m","e","s","s","a","g","e","s">>
KeyRole == <<"r","o","l","e">>
KeyContent == <<"c","o","n","t","e","n","t">>
KeyChunked == <<"_","c","h","u","n","k","e","d">>
KeyChunkedByRole ==
    <<"_","c","h","u","n","k","e","d","_","b","y","_","r","o","l","e">>

\* json.dumps(msg) for a message {"role": ..., "content": ...}
DumpsMsg(msg) ==
    JsonObject(<< JsonKey(KeyRole) \o JsonString(msg.role),
                  JsonKey(KeyContent) \o JsonString(msg.content) >>)

\* json.dumps(conv) for a conversation record; absent keys are not written
DumpsConv(conv) ==
    JsonObject(
        << JsonKey(KeyId) \o JsonString(conv.id) >>
        \o (IF conv.has_title
            THEN << JsonKey(KeyTitle) \o JsonString(conv.title) >> ELSE <<>>)
        \o (IF conv.has_messages
            THEN << JsonKey(KeyMessages)
                    \o JsonArray([p \in DOMAIN conv.messages |->
                                     DumpsMsg(conv.messages[p])]) >>
            ELSE <<>>)
        \o (IF conv.chunked
            THEN << JsonKey(KeyChunked) \o JsonTrue >> ELSE <<>>)
        \o (IF conv.chunked_by_role
            THEN << JsonKey(KeyChunkedByRole) \o JsonTrue >> ELSE <<>>))

(***************************************************************************)
(* ChunkerEngine.count_tokens                                              *)
(***************************************************************************)
\* a faulty estimate: the quotient is rounded up
count_tokens_up(text) == (Len(text) + 3) \div 4

\* line 43: len(text) // 4
count_tokens(text) == Len(text) \div 4

MsgTokens(msg) == count_tokens(DumpsMsg(msg))
ConvTokens(conv) == count_tokens(DumpsConv(conv))

(***************************************************************************)
(* Records.  A conversation is a dict with the keys id, title (optional)   *)
(* and messages (optional); has_title / has_messages say whether the key   *)
(* is present, chunked / chunked_by_role whether the marker key is.        *)
(***************************************************************************)
User == <<"u","s","e","r">>
Assistant == <<"a","s","s","i","s","t","a","n","t">>

Message(role, content) == [role |-> role, content |-> content]

Conversation(id, has_title, title, has_messages, messages) ==
    [id |-> id, has_title |-> has_title, title |-> title,
     has_messages |-> has_messages, messages |-> messages,
     chunked |-> FALSE, chunked_by_role |-> FALSE]

\* conv.get("messages", []) and conv.get("title", "")
GetMessages(conv) == IF conv.has_messages THEN conv.messages ELSE <<>>
GetTitle(conv) == IF conv.has_title THEN conv.title ELSE <<>>

Looked(raised, value) == [raised |-> raised, value |-> value]

\* a faulty lookup: conv["messages"], a KeyError when the key is absent
MessagesLookupBySubscript(conv) == Looked(~conv.has_messages, conv.messages)

\* lines 72, 147 and 210: conv.get("messages", []) and conv.get("messages")
\* give a value for every record and never raise
MessagesLookup(conv) == Looked(FALSE, GetMessages(conv))

Chunk(convs, tokens, strat) ==
    [conversations |-> convs, token_count |-> tokens, chunk_strategy |-> strat]


(***************************************************************************)
(* The inputs the model draws from.                                        *)
(***************************************************************************)
Strategies == {"size", "topic", "role"}
Budgets == {10, 24, 48}

ConvId(n) == <<"c", Digits[n + 1]>>

Hi == <<"h","i">>
LongContent == Rep("x", 28) \o <<Quote>>
LongTitle == Rep("t", 40)

\* size and role: a short and a long message, of two roles, at most MaxMsgs
\* messages in the whole input
PackMsgs == {Message(Assistant, Hi), Message(User, LongContent)}

Body(has_title, title, has_messages, messages) ==
    [has_title |-> has_title, title |-> title,
     has_messages |-> has_messages, messages |-> messages]

PackBodies(k) ==
    IF k = 0
    THEN {Body(FALSE, <<>>, FALSE, <<>>), Body(FALSE, <<>>, TRUE, <<>>),
          Body(TRUE, LongTitle, FALSE, <<>>)}
    ELSE {Body(FALSE, <<>>, TRUE, ms) : ms \in [1..k -> PackMsgs]}

RECURSIVE PackLists(_, _)
PackLists(n, total) ==
    IF n = 0 THEN {<<>>}
    ELSE UNION { { <<b>> \o rest : b \in PackBodies(k),
                                   rest \in PackLists(n - 1, total - k) }
                 : k \in 0..total }

\* topic: titles with common words, in both cases, and a first message as
\* the fallback signal
TitleLong == <<"A","I"," ","c","a","t","s"," ","a","n","d"," ","d","o","g","s">>
TitleAi == <<"a","i">>
TitleDogs == <<"D","o","g","s","!">>
ContentAi == <<"A","i","?">>

TopicBodies ==
    { Body(FALSE, <<>>, FALSE, <<>>),
      Body(FALSE, <<>>, TRUE, <<>>),
      Body(TRUE, <<>>, TRUE, <<Message(User, ContentAi)>>),
      Body(TRUE, TitleLong, FALSE, <<>>),
      Body(TRUE, TitleAi, FALSE, <<>>),
      Body(TRUE, TitleAi, TRUE, <<Message(User, Hi)>>),
      Body(TRUE, TitleDogs, FALSE, <<>>) }

WithIds(bodies) ==
    [p \in DOMAIN bodies |->
        Conversation(ConvId(p), bodies[p].has_title, bodies[p].title,
                     bodies[p].has_messages, bodies[p].messages)]

\* the scenarios of the specification, with their budget of 1000 tokens:
\* A two conversations of 100 tokens, B one of 900 and one of 200 tokens,
\* C one conversation of ten messages of 300 tokens each
TitledOnly(n) == Body(TRUE, Rep("x", n), FALSE, <<>>)
ScenarioA == WithIds(<<TitledOnly(375), TitledOnly(375)>>)
ScenarioB == WithIds(<<TitledOnly(3575), TitledOnly(775)>>)
ScenarioC ==
    WithIds(<<Body(FALSE, <<>>, TRUE, Rep(Message(User, Rep("x", 1169)), 10))>>)
Scenarios == {ScenarioA, ScenarioB, ScenarioC}

\* D a conversation whose messages have the roles user, user, assistant, user
ScenarioD ==
    WithIds(<<Body(FALSE, <<>>, TRUE,
                   <<Message(User, Hi), Message(User, LongContent),
                     Message(Assistant, Hi), Message(User, Hi)>>)>>)

\* a seed title of ten words and a title made of three of them: the
\* similarity is 0.3 exactly
TitleTenWords ==
    <<"a"," ","b"," ","c"," ","d"," ","e"," ","f"," ","g"," ","h"," ","i"," ","j">>
TitleThreeWords == <<"a"," ","b"," ","c">>
ThresholdCase ==
    WithIds(<<Body(TRUE, TitleTenWords, FALSE, <<>>),
              Body(TRUE, TitleThreeWords, FALSE, <<>>)>>)

Input(convs, budget) == [conversations |-> convs, max_tokens |-> budget]

Inputs(strat) ==
    IF strat = "topic"
    THEN { Input(WithIds(bs), b) :
             bs \in UNION {[1..n -> TopicBodies] : n \in 0..MaxConvs},
             b \in Budgets }
         \cup {Input(ThresholdCase, 1000)}
    ELSE { Input(WithIds(bs), b) :
             bs \in UNION {PackLists(n, MaxMsgs) : n \in 0..MaxConvs},
             b \in Budgets }
         \cup (IF strat = "size"
               THEN {Input(sc, 1000) : sc \in Scenarios}
               ELSE {Input(ScenarioD, 1000)})

(***************************************************************************)
(* State.                                                                  *)
(***************************************************************************)
VARIABLES
    strategy, conversations, max_tokens,   \* the arguments of the call
    pc,                                    \* where the call stands
    chunks, current_chunk, current_tokens, \* chunk_by_size, chunk_by_role
    chunk_alias, temp_alias,               \* the lists two names share
    conv_pos,                              \* position of `for conv in`
    temp_messages, temp_tokens, msg_pos,   \* the split loop
    role_groups, group_pos,                \* chunk_by_role
    topics, assigned, clusters,            \* chunk_by_topic
    cluster, cluster_tokens, i, j,
    run, first,                            \* repeated calls
    data, written, returned,               \* process_file
    arg_text, estimate,                    \* count_tokens called by itself:
                                           \* estimate holds what it returned
    invocations, output_dir,               \* two calls of process_file
    injection_tasks, processing_tasks,     \* the task stores of the API
    export_tasks, export_files,
    background_tasks,                      \* the frames of the background tasks
    response                               \* the last answer of an endpoint

args == <<strategy, conversations, max_tokens>>
packing == <<chunks, current_chunk, current_tokens, conv_pos>>
splitting == <<temp_messages, temp_tokens, msg_pos>>
grouping == <<role_groups, group_pos>>
clustering == <<topics, assigned, clusters, cluster, cluster_tokens, i, j>>
calls == <<run, first>>
sharing == <<chunk_alias, temp_alias>>
driver == <<data, written, returned>>
counting == <<arg_text, estimate>>
pair == <<invocations, output_dir>>
api == <<injection_tasks, processing_tasks, export_tasks, export_files,
         background_tasks, response>>
\* the state outside one call of a strategy or of process_file
elsewhere == <<counting, pair, api>>
chunker == <<args, pc, packing, splitting, grouping, clustering, calls,
             sharing, driver>>
vars == <<chunker, elsewhere>>

\* an empty mapping
NoEntry == [t \in {} |-> 0]

\* count_tokens is not being called by itself
NoCounting == arg_text = <<>> /\ estimate = <<>>

\* no pair of calls of process_file is running
NoPair == invocations = <<>> /\ output_dir = NoEntry

\* the API holds no task and has answered nothing
NoApi ==
    /\ injection_tasks = NoEntry /\ processing_tasks = NoEntry
    /\ export_tasks = NoEntry /\ export_files = NoEntry
    /\ background_tasks = NoEntry
    /\ response = [endpoint |-> "none", task_id |-> "", code |-> 0,
                   detail |-> ""]

\* no frame of a strategy exists yet
NoFrame ==
    /\ chunks = <<>> /\ current_chunk = <<>> /\ current_tokens = 0
    /\ chunk_alias = 0 /\ temp_alias = 0
    /\ conv_pos = 1
    /\ temp_messages = <<>> /\ temp_tokens = 0 /\ msg_pos = 1
    /\ role_groups = <<>> /\ group_pos = 1
    /\ topics = <<>> /\ assigned = <<>> /\ clusters = <<>>
    /\ cluster = <<>> /\ cluster_tokens = 0 /\ i = 1 /\ j = 1
    /\ run = 1 /\ first = <<>>

\* the content of a file, by its shape: "list" a bare list of conversations,
\* "wrapper" an object with the key conversations, "object" an object
\* without it, "scalar" any other JSON value, "unreadable" no JSON at all
FileData(shape, convs) == [shape |-> shape, conversations |-> convs]
NoFile == FileData("none", <<>>)

\* a strategy called by itself, on a list of conversations
Init ==
    /\ strategy \in Strategies
    /\ \E inp \in Inputs(strategy) :
          /\ conversations = inp.conversations
          /\ max_tokens = inp.max_tokens
    /\ pc = "idle"
    /\ NoFrame
    /\ data = NoFile /\ written = <<>> /\ returned = "unset"
    /\ NoCounting /\ NoPair /\ NoApi

\* a new frame: the locals a function has not bound yet
UnboundSplit ==
    /\ temp_messages' = <<>> /\ temp_tokens' = 0 /\ msg_pos' = 1
    /\ temp_alias' = 0
UnboundGroups == role_groups' = <<>> /\ group_pos' = 1
UnboundClusters ==
    /\ topics' = <<>> /\ assigned' = <<>> /\ clusters' = <<>>
    /\ cluster' = <<>> /\ cluster_tokens' = 0 /\ i' = 1 /\ j' = 1

(***************************************************************************)
(* chunk_by_size                                                           *)
(***************************************************************************)
\* a faulty entry: the accumulators live on the engine and outlast a call
EnterSizeStale ==
    /\ chunks' = <<>>
    /\ UNCHANGED <<current_chunk, current_tokens>>
    /\ chunk_alias' = 0
    /\ conv_pos' = 1
    /\ UnboundSplit /\ UnboundGroups /\ UnboundClusters
    /\ pc' = "size_loop"

\* lines 48-50: the locals of a call
EnterSize ==
    /\ chunks' = <<>> /\ current_chunk' = <<>> /\ current_tokens' = 0
    /\ chunk_alias' = 0
    /\ conv_pos' = 1
    /\ UnboundSplit /\ UnboundGroups /\ UnboundClusters
    /\ pc' = "size_loop"

CallSize ==
    /\ pc = "idle" /\ strategy = "size"
    /\ EnterSize
    /\ UNCHANGED <<args, calls, driver>>
    /\ UNCHANGED elsewhere

\* line 58: the conversation alone exceeds the budget
SizeOversized(conv_tokens, budget) == conv_tokens > budget

\* faulty tests: the budget compared before the conversation is added, and
\* a chunk never filled to the budget exactly
SizeFitsBeforeAdding(running, conv_tokens, budget) == running <= budget
SizeFitsStrictly(running, conv_tokens, budget) == running + conv_tokens < budget

\* line 110: the conversation fits in the current chunk
SizeFits(running, conv_tokens, budget) == running + conv_tokens <= budget

\* a faulty test: the piece is closed only once it is over the budget
SizeSplitOverflowsLate(running, msg_tokens, budget) == running > budget

\* line 80: the message would take the piece over the budget
SizeSplitOverflows(running, msg_tokens, budget) == running + msg_tokens > budget

\* the copy of conv that carries a run of its messages
SizePiece(conv, messages) ==
    [conv EXCEPT !.has_messages = TRUE, !.messages = messages, !.chunked = TRUE]

\* a faulty piece: made on conv itself, the record of the input
SizePieceSourceMarked(conv, messages) == SizePiece(conv, messages)

\* lines 83-85 and 100-102: what making a piece leaves of conv, the record
\* of the input; new_conv = conv.copy() takes the keys to a new dict
SizePieceSource(conv, messages) == conv

\* list.append through a name that shares its list with an emitted chunk
\* (alias is the position of that chunk, 0 when there is none): the chunk
\* holds the list, so it holds the appended element too
AppendedInChunk(cs, alias, conv) ==
    IF alias = 0 THEN cs
    ELSE [cs EXCEPT ![alias].conversations = Append(@, conv)]

AppendedInPiece(cs, alias, msg) ==
    IF alias = 0 THEN cs
    ELSE [cs EXCEPT ![alias].conversations[1].messages = Append(@, msg)]

Flushed(cs, cur, toks, alias) ==
    [chunks |-> cs, current_chunk |-> cur, current_tokens |-> toks,
     chunk_alias |-> alias]

\* faulty flushes: the current chunk is emitted even when empty, the
\* current chunk is not emitted, and the current chunk is emitted but the
\* name current_chunk keeps the emitted list
SizeFlushedUnguarded(cs, cur, toks, alias) ==
    Flushed(Append(cs, Chunk(cur, toks, "size")), <<>>, 0, 0)
SizeFlushedNever(cs, cur, toks, alias) == Flushed(cs, cur, toks, alias)
SizeFlushedKept(cs, cur, toks, alias) ==
    IF cur # <<>>
    THEN Flushed(Append(cs, Chunk(cur, toks, "size")), cur, toks, Len(cs) + 1)
    ELSE Flushed(cs, cur, toks, alias)

\* lines 60-67: the non-empty current chunk is emitted and the names are
\* bound to a new list and to 0
SizeFlushed(cs, cur, toks, alias) ==
    IF cur # <<>>
    THEN Flushed(Append(cs, Chunk(cur, toks, "size")), <<>>, 0, 0)
    ELSE Flushed(cs, cur, toks, alias)

\* lines 52-74 and 109-121: one iteration of `for conv in conversations`
SizeConv ==
    /\ pc = "size_loop" /\ conv_pos <= Len(conversations)
    /\ LET conv == conversations[conv_pos]
           conv_tokens == ConvTokens(conv)
           flushed == SizeFlushed(chunks, current_chunk, current_tokens,
                                  chunk_alias)
       IN  IF SizeOversized(conv_tokens, max_tokens)
           THEN /\ chunks' = flushed.chunks
                /\ current_chunk' = flushed.current_chunk
                /\ current_tokens' = flushed.current_tokens
                /\ chunk_alias' = flushed.chunk_alias
                /\ temp_messages' = <<>> /\ temp_tokens' = 0 /\ msg_pos' = 1
                /\ temp_alias' = 0
                /\ pc' = IF MessagesLookup(conv).raised
                         THEN "raised" ELSE "size_split"
                /\ UNCHANGED conv_pos
           ELSE IF SizeFits(current_tokens, conv_tokens, max_tokens)
           THEN /\ current_chunk' = Append(current_chunk, conv)
                /\ chunks' = AppendedInChunk(chunks, chunk_alias, conv)
                /\ current_tokens' = current_tokens + conv_tokens
                /\ conv_pos' = conv_pos + 1
                /\ UNCHANGED <<splitting, pc, sharing>>
           ELSE /\ chunks' = Append(chunks,
                                    Chunk(current_chunk, current_tokens, "size"))
                /\ current_chunk' = <<conv>>
                /\ current_tokens' = conv_tokens
                /\ chunk_alias' = 0
                /\ conv_pos' = conv_pos + 1
                /\ UNCHANGED <<splitting, pc, temp_alias>>
    /\ UNCHANGED <<args, grouping, clustering, calls, driver>>
    /\ UNCHANGED elsewhere

\* lines 76-96: one iteration of `for msg in messages`
SizeMsg ==
    /\ pc = "size_split"
    /\ msg_pos <= Len(GetMessages(conversations[conv_pos]))
    /\ LET conv == conversations[conv_pos]
           msg == GetMessages(conv)[msg_pos]
           msg_tokens == MsgTokens(msg)
       IN  IF SizeSplitOverflows(temp_tokens, msg_tokens, max_tokens)
           THEN IF temp_messages # <<>>
                THEN /\ chunks' = Append(chunks,
                            Chunk(<<SizePiece(conv, temp_messages)>>,
                                  temp_tokens, "size"))
                     /\ conversations' =
                            [conversations EXCEPT
                                ![conv_pos] = SizePieceSource(conv, temp_messages)]
                     /\ temp_messages' = <<msg>>
                     /\ temp_tokens' = msg_tokens
                     /\ temp_alias' = 0
                ELSE UNCHANGED <<chunks, conversations, temp_messages,
                                 temp_tokens, temp_alias>>
           ELSE /\ temp_messages' = Append(temp_messages, msg)
                /\ chunks' = AppendedInPiece(chunks, temp_alias, msg)
                /\ temp_tokens' = temp_tokens + msg_tokens
                /\ UNCHANGED <<conversations, temp_alias>>
    /\ msg_pos' = msg_pos + 1
    /\ UNCHANGED <<strategy, max_tokens, pc, current_chunk, current_tokens,
                   chunk_alias, conv_pos, grouping, clustering, calls, driver>>
    /\ UNCHANGED elsewhere

\* lines 98-107: the last piece, and on to the next conversation
SizeSplitEnd ==
    /\ pc = "size_split"
    /\ msg_pos > Len(GetMessages(conversations[conv_pos]))
    /\ LET conv == conversations[conv_pos]
       IN  IF temp_messages # <<>>
           THEN /\ chunks' = Append(chunks,
                       Chunk(<<SizePiece(conv, temp_messages)>>,
                             temp_tokens, "size"))
                /\ conversations' =
                       [conversations EXCEPT
                           ![conv_pos] = SizePieceSource(conv, temp_messages)]
                /\ temp_alias' = Len(chunks) + 1
           ELSE UNCHANGED <<chunks, conversations, temp_alias>>
    /\ conv_pos' = conv_pos + 1
    /\ pc' = "size_loop"
    /\ UNCHANGED <<strategy, max_tokens, current_chunk, current_tokens,
                   chunk_alias, splitting, grouping, clustering, calls, driver>>
    /\ UNCHANGED elsewhere

\* lines 123-131: the last chunk, and the return
SizeEnd ==
    /\ pc = "size_loop" /\ conv_pos > Len(conversations)
    /\ IF current_chunk # <<>>
       THEN /\ chunks' = Append(chunks,
                                Chunk(current_chunk, current_tokens, "size"))
            /\ chunk_alias' = Len(chunks) + 1
       ELSE UNCHANGED <<chunks, chunk_alias>>
    /\ pc' = "done"
    /\ UNCHANGED <<args, current_chunk, current_tokens, conv_pos, splitting,
                   temp_alias, grouping, clustering, calls, driver>>
    /\ UNCHANGED elsewhere

(***************************************************************************)
(* chunk_by_topic                                                          *)
(***************************************************************************)
\* lines 143-151: the title, else the content of the first message, else ""
TopicOf(conv) ==
    IF GetTitle(conv) # <<>> THEN GetTitle(conv)
    ELSE IF GetMessages(conv) # <<>> THEN GetMessages(conv)[1].content
    ELSE <<>>

Max(a, b) == IF a >= b THEN a ELSE b

\* a faulty measure: the common words over the words of both topics
SimilarOfBoth(seed_topic, other_topic) ==
    LET seed_words == WordSet(Lower(seed_topic))
        other_words == WordSet(Lower(other_topic))
    IN  10 * Cardinality(seed_words \cap other_words)
            > 3 * Max(1, Cardinality(seed_words \cup other_words))

\* lines 173-178: len(common_words) / max(1, len(words of the seed)) > 0.3,
\* in integers: 10 * common > 3 * max(1, seed words)
Similar(seed_topic, other_topic) ==
    LET seed_words == WordSet(Lower(seed_topic))
        common_words == seed_words \cap WordSet(Lower(other_topic))
    IN  10 * Cardinality(common_words) > 3 * Max(1, Cardinality(seed_words))

\* a faulty test: the topics are not compared
TopicJoinsAnyTopic(is_assigned, seed_topic, topic, running, conv_tokens, budget) ==
    /\ ~is_assigned
    /\ running + conv_tokens <= budget

\* a faulty test: an assigned conversation may join a second cluster
TopicJoinsAgain(is_assigned, seed_topic, topic, running, conv_tokens, budget) ==
    /\ Similar(seed_topic, topic)
    /\ running + conv_tokens <= budget

\* lines 168-180: conversation j joins the cluster of the seed
TopicJoins(is_assigned, seed_topic, topic, running, conv_tokens, budget) ==
    /\ ~is_assigned
    /\ Similar(seed_topic, topic)
    /\ running + conv_tokens <= budget

\* lines 145-148: the messages are looked up when the title is empty
TopicLookupRaises(conv) ==
    GetTitle(conv) = <<>> /\ MessagesLookup(conv).raised

\* a faulty addition: the newcomer is put in front of the cluster
ClusterAddsInFront(members, n) == <<n>> \o members

\* line 181: cluster.append(j)
ClusterAdds(members, n) == Append(members, n)

\* lines 142-156: the topics and the locals of a call
EnterTopic ==
    /\ topics' = [p \in DOMAIN conversations |-> TopicOf(conversations[p])]
    /\ clusters' = <<>>
    /\ assigned' = [p \in DOMAIN conversations |-> FALSE]
    /\ i' = 1 /\ j' = 1 /\ cluster' = <<>> /\ cluster_tokens' = 0
    /\ chunks' = <<>> /\ current_chunk' = <<>> /\ current_tokens' = 0
    /\ chunk_alias' = 0
    /\ conv_pos' = 1
    /\ UnboundSplit /\ UnboundGroups
    /\ pc' = IF \E p \in DOMAIN conversations :
                   TopicLookupRaises(conversations[p])
             THEN "raised" ELSE "topic_loop"

CallTopic ==
    /\ pc = "idle" /\ strategy = "topic"
    /\ EnterTopic
    /\ UNCHANGED <<args, calls, driver>>
    /\ UNCHANGED elsewhere

\* lines 158-164: one iteration of `for i in range(len(conversations))`
TopicSeed ==
    /\ pc = "topic_loop" /\ i <= Len(conversations)
    /\ IF assigned[i]
       THEN /\ i' = i + 1
            /\ UNCHANGED <<pc, assigned, cluster, cluster_tokens, j>>
       ELSE /\ cluster' = <<i>>
            /\ assigned' = [assigned EXCEPT ![i] = TRUE]
            /\ cluster_tokens' = ConvTokens(conversations[i])
            /\ j' = i + 1
            /\ pc' = "topic_scan"
            /\ UNCHANGED i
    /\ UNCHANGED <<args, packing, splitting, grouping, topics, clusters, calls,
                   sharing, driver>>
    /\ UNCHANGED elsewhere

\* lines 167-183: one iteration of `for j in range(i + 1, len(conversations))`
TopicScan ==
    /\ pc = "topic_scan" /\ j <= Len(conversations)
    /\ LET conv_tokens == ConvTokens(conversations[j])
       IN  IF TopicJoins(assigned[j], topics[i], topics[j],
                         cluster_tokens, conv_tokens, max_tokens)
           THEN /\ cluster' = ClusterAdds(cluster, j)
                /\ assigned' = [assigned EXCEPT ![j] = TRUE]
                /\ cluster_tokens' = cluster_tokens + conv_tokens
           ELSE UNCHANGED <<cluster, assigned, cluster_tokens>>
    /\ j' = j + 1
    /\ UNCHANGED <<args, pc, packing, splitting, grouping, topics, clusters,
                   i, calls, sharing, driver>>
    /\ UNCHANGED elsewhere

\* lines 185-188: the cluster is complete
TopicCluster ==
    /\ pc = "topic_scan" /\ j > Len(conversations)
    /\ clusters' = Append(clusters,
                          [indices |-> cluster, token_count |-> cluster_tokens])
    /\ i' = i + 1
    /\ pc' = "topic_loop"
    /\ UNCHANGED <<args, packing, splitting, grouping, topics, assigned,
                   cluster, cluster_tokens, j, calls, sharing, driver>>
    /\ UNCHANGED elsewhere

\* lines 190-200: the clusters become chunks, and the return
TopicEnd ==
    /\ pc = "topic_loop" /\ i > Len(conversations)
    /\ chunks' = [p \in DOMAIN clusters |->
                    Chunk([q \in DOMAIN clusters[p].indices |->
                              conversations[clusters[p].indices[q]]],
                          clusters[p].token_count, "topic")]
    /\ pc' = "done"
    /\ UNCHANGED <<args, current_chunk, current_tokens, conv_pos, splitting,
                   grouping, clustering, calls, sharing, driver>>
    /\ UNCHANGED elsewhere

(***************************************************************************)
(* chunk_by_role                                                           *)
(***************************************************************************)
\* lines 213-229: the runs of consecutive messages of one role.  The state
\* of the loop is (role_groups, current_role, current_group); <<>> is None.
\* a faulty loop: a group is closed at every message, whatever its role
RECURSIVE GroupLoopEach(_, _, _, _)
GroupLoopEach(messages, groups, current_role, current_group) ==
    IF messages = <<>>
    THEN IF current_group # <<>> THEN Append(groups, current_group) ELSE groups
    ELSE LET msg == Head(messages)
         IN  IF current_group # <<>>
             THEN GroupLoopEach(Tail(messages), Append(groups, current_group),
                                msg.role, <<msg>>)
             ELSE GroupLoopEach(Tail(messages), groups,
                                msg.role, Append(current_group, msg))

RECURSIVE GroupLoop(_, _, _, _)
GroupLoop(messages, groups, current_role, current_group) ==
    IF messages = <<>>
    THEN IF current_group # <<>> THEN Append(groups, current_group) ELSE groups
    ELSE LET msg == Head(messages)
         IN  IF msg.role # current_role /\ current_group # <<>>
             THEN GroupLoop(Tail(messages), Append(groups, current_group),
                            msg.role, <<msg>>)
             ELSE GroupLoop(Tail(messages), groups,
                            msg.role, Append(current_group, msg))

RoleGroups(messages) == GroupLoop(messages, <<>>, <<>>, <<>>)

\* a faulty piece: the marker is left out
RolePieceUnmarked(conv, messages) ==
    [conv EXCEPT !.has_messages = TRUE, !.messages = messages]

\* the copy of conv that carries the messages of a group, or a run of them
RolePiece(conv, messages) ==
    [conv EXCEPT !.has_messages = TRUE, !.messages = messages,
                 !.chunked_by_role = TRUE]

\* lines 232-234, 254-256 and 270-272: what making a piece leaves of conv,
\* the record of the input; the piece is made on conv.copy()
RolePieceSource(conv, messages) == conv

\* line 241: the group alone exceeds the budget
RoleOversized(group_tokens, budget) == group_tokens > budget

\* line 281: the group fits in the current chunk
RoleFits(running, group_tokens, budget) == running + group_tokens <= budget

\* line 251: the message would take the piece over the budget
RoleSplitOverflows(running, msg_tokens, budget) == running + msg_tokens > budget

\* lines 205-207: the locals of a call
EnterRole ==
    /\ chunks' = <<>> /\ current_chunk' = <<>> /\ current_tokens' = 0
    /\ chunk_alias' = 0
    /\ conv_pos' = 0
    /\ role_groups' = <<>> /\ group_pos' = 1
    /\ UnboundSplit /\ UnboundClusters
    /\ pc' = "role_loop"

CallRole ==
    /\ pc = "idle" /\ strategy = "role"
    /\ EnterRole
    /\ UNCHANGED <<args, calls, driver>>
    /\ UNCHANGED elsewhere

\* lines 209-229: the next conversation and its role groups
RoleConv ==
    /\ pc = "role_loop" /\ group_pos > Len(role_groups)
    /\ conv_pos < Len(conversations)
    /\ conv_pos' = conv_pos + 1
    /\ LET looked == MessagesLookup(conversations[conv_pos + 1])
       IN  /\ role_groups' = RoleGroups(looked.value)
           /\ pc' = IF looked.raised THEN "raised" ELSE pc
    /\ group_pos' = 1
    /\ UNCHANGED <<args, chunks, current_chunk, current_tokens, splitting,
                   clustering, calls, sharing, driver>>
    /\ UNCHANGED elsewhere

\* lines 232-245 and 280-293: one iteration of `for group in role_groups`
RoleGroup ==
    /\ pc = "role_loop" /\ group_pos <= Len(role_groups)
    /\ LET conv == conversations[conv_pos]
           group_conv == RolePiece(conv, role_groups[group_pos])
           group_tokens == ConvTokens(group_conv)
       IN  /\ conversations' =
                  [conversations EXCEPT
                      ![conv_pos] = RolePieceSource(conv, role_groups[group_pos])]
           /\ IF RoleOversized(group_tokens, max_tokens)
              THEN /\ temp_messages' = <<>> /\ temp_tokens' = 0 /\ msg_pos' = 1
                   /\ temp_alias' = 0
                   /\ pc' = "role_split"
                   /\ UNCHANGED <<chunks, current_chunk, current_tokens,
                                  chunk_alias, group_pos>>
              ELSE IF RoleFits(current_tokens, group_tokens, max_tokens)
              THEN /\ current_chunk' = Append(current_chunk, group_conv)
                   /\ chunks' = AppendedInChunk(chunks, chunk_alias, group_conv)
                   /\ current_tokens' = current_tokens + group_tokens
                   /\ group_pos' = group_pos + 1
                   /\ UNCHANGED <<splitting, pc, sharing>>
              ELSE /\ chunks' = IF current_chunk # <<>>
                                THEN Append(chunks,
                                            Chunk(current_chunk, current_tokens,
                                                  "role"))
                                ELSE chunks
                   /\ current_chunk' = <<group_conv>>
                   /\ current_tokens' = group_tokens
                   /\ chunk_alias' = 0
                   /\ group_pos' = group_pos + 1
                   /\ UNCHANGED <<splitting, pc, temp_alias>>
    /\ UNCHANGED <<strategy, max_tokens, conv_pos, role_groups, clustering,
                   calls, driver>>
    /\ UNCHANGED elsewhere

\* lines 247-267: one iteration of `for msg in group`
RoleMsg ==
    /\ pc = "role_split" /\ msg_pos <= Len(role_groups[group_pos])
    /\ LET conv == conversations[conv_pos]
           msg == role_groups[group_pos][msg_pos]
           msg_tokens == MsgTokens(msg)
       IN  IF RoleSplitOverflows(temp_tokens, msg_tokens, max_tokens)
           THEN IF temp_messages # <<>>
                THEN /\ chunks' = Append(chunks,
                            Chunk(<<RolePiece(conv, temp_messages)>>,
                                  temp_tokens, "role"))
                     /\ conversations' =
                            [conversations EXCEPT
                                ![conv_pos] = RolePieceSource(conv, temp_messages)]
                     /\ temp_messages' = <<msg>>
                     /\ temp_tokens' = msg_tokens
                     /\ temp_alias' = 0
                ELSE UNCHANGED <<chunks, conversations, temp_messages,
                                 temp_tokens, temp_alias>>
           ELSE /\ temp_messages' = Append(temp_messages, msg)
                /\ chunks' = AppendedInPiece(chunks, temp_alias, msg)
                /\ temp_tokens' = temp_tokens + msg_tokens
                /\ UNCHANGED <<conversations, temp_alias>>
    /\ msg_pos' = msg_pos + 1
    /\ UNCHANGED <<strategy, max_tokens, pc, current_chunk, current_tokens,
                   chunk_alias, conv_pos, grouping, clustering, calls, driver>>
    /\ UNCHANGED elsewhere

\* lines 269-278: the last piece, and on to the next group
RoleSplitEnd ==
    /\ pc = "role_split" /\ msg_pos > Len(role_groups[group_pos])
    /\ LET conv == conversations[conv_pos]
       IN  IF temp_messages # <<>>
           THEN /\ chunks' = Append(chunks,
                       Chunk(<<RolePiece(conv, temp_messages)>>,
                             temp_tokens, "role"))
                /\ conversations' =
                       [conversations EXCEPT
                           ![conv_pos] = RolePieceSource(conv, temp_messages)]
                /\ temp_alias' = Len(chunks) + 1
           ELSE UNCHANGED <<chunks, conversations, temp_alias>>
    /\ group_pos' = group_pos + 1
    /\ pc' = "role_loop"
    /\ UNCHANGED <<strategy, max_tokens, current_chunk, current_tokens,
                   chunk_alias, conv_pos, role_groups, splitting, clustering,
                   calls, driver>>
    /\ UNCHANGED elsewhere

\* lines 295-303: the last chunk, and the return
RoleEnd ==
    /\ pc = "role_loop" /\ group_pos > Len(role_groups)
    /\ conv_pos >= Len(conversations)
    /\ IF current_chunk # <<>>
       THEN /\ chunks' = Append(chunks,
                                Chunk(current_chunk, current_tokens, "role"))
            /\ chunk_alias' = Len(chunks) + 1
       ELSE UNCHANGED <<chunks, chunk_alias>>
    /\ pc' = "done"
    /\ UNCHANGED <<args, current_chunk, current_tokens, conv_pos, splitting,
                   temp_alias, grouping, clustering, calls, driver>>
    /\ UNCHANGED elsewhere

(***************************************************************************)
(* One call, and the same call made a second time on the same engine.      *)
(***************************************************************************)
SizeSteps == SizeConv \/ SizeMsg \/ SizeSplitEnd \/ SizeEnd
TopicSteps == TopicSeed \/ TopicScan \/ TopicCluster \/ TopicEnd
RoleSteps == RoleConv \/ RoleGroup \/ RoleMsg \/ RoleSplitEnd \/ RoleEnd

SizeNext == CallSize \/ SizeSteps
TopicNext == CallTopic \/ TopicSteps
RoleNext == CallRole \/ RoleSteps

Next == SizeNext \/ TopicNext \/ RoleNext
Spec == Init /\ [][Next]_vars

\* the caller keeps the result and calls the same strategy again with the
\* same arguments
CallAgain ==
    /\ pc = "done" /\ run = 1
    /\ first' = chunks
    /\ run' = 2
    /\ CASE strategy = "size" -> EnterSize
         [] strategy = "topic" -> EnterTopic
         [] strategy = "role" -> EnterRole
    /\ UNCHANGED <<args, driver>>
    /\ UNCHANGED elsewhere

NextRepeat == Next \/ CallAgain
SpecRepeat == Init /\ [][NextRepeat]_vars

(***************************************************************************)
(* process_file: the file is loaded, the strategy is called on its         *)
(* conversations and the result is written to the output file.             *)
(***************************************************************************)
\* a strategy name of the three, or any other name
StrategyNames == Strategies \cup {"other"}
FileBudgets == {24, 1000}

\* the files a strategy name is tried on: the lists of conversations of the
\* strategy (of the size strategy for another name), bare and wrapped, and
\* the contents that hold no list
Files(name) ==
    LET inputs == Inputs(IF name \in Strategies THEN name ELSE "size")
    IN  { [data |-> FileData(shape, inp.conversations),
           max_tokens |-> inp.max_tokens] :
             shape \in {"list", "wrapper"},
             inp \in {n \in inputs : n.max_tokens \in FileBudgets} }
        \cup { [data |-> FileData(shape, <<>>), max_tokens |-> b] :
                 shape \in {"object", "scalar", "unreadable"},
                 b \in FileBudgets }

InitFile ==
    /\ strategy \in StrategyNames
    /\ \E file \in Files(strategy) :
          /\ data = file.data
          /\ max_tokens = file.max_tokens
    /\ conversations = <<>>
    /\ pc = "file_idle"
    /\ NoFrame
    /\ written = <<>> /\ returned = "unset"
    /\ NoCounting /\ NoPair /\ NoApi

LoadResult(ok, convs) == [ok |-> ok, conversations |-> convs]

\* a faulty load: every object is taken for a wrapper, one without the key
\* conversations for a wrapper of no conversation
LoadedAnyObject(file) ==
    IF file.shape \in {"list", "wrapper", "object"}
    THEN LoadResult(TRUE, file.conversations)
    ELSE LoadResult(FALSE, <<>>)

\* lines 309-321: the conversations of a bare list or of a wrapper; any
\* other content, and a file that cannot be read, raise
Loaded(file) ==
    IF file.shape \in {"list", "wrapper"}
    THEN LoadResult(TRUE, file.conversations)
    ELSE LoadResult(FALSE, <<>>)

\* a faulty choice: an unknown name falls back to the size strategy
DispatchedOrSize(name) ==
    IF name \in {"topic", "role"} THEN name ELSE "size"

\* lines 324-332: the strategy function a name selects, "none" for a name
\* outside the three
Dispatched(name) ==
    IF name \in {"size", "topic", "role"} THEN name ELSE "none"

\* lines 335-338: the name of the output file
OutputFile(name) ==
    CASE name = "size" -> "chunked_size"
      [] name = "topic" -> "chunked_topic"
      [] name = "role" -> "chunked_role"
      [] OTHER -> "chunked_other"

\* lines 342-349: the document written to the output file
ProcessingResult(cs, name, budget) ==
    [chunks |-> cs,
     chunking_strategy |-> name,
     max_tokens_per_chunk |-> budget,
     total_chunks |-> Len(cs),
     total_conversations |->
         SumSeq([p \in DOMAIN cs |-> Len(cs[p].conversations)])]

\* lines 309-321: the file is loaded
ProcessLoad ==
    /\ pc = "file_idle"
    /\ LET loaded == Loaded(data)
       IN  IF loaded.ok
           THEN /\ conversations' = loaded.conversations
                /\ pc' = "file_loaded"
                /\ UNCHANGED returned
           ELSE /\ pc' = "file_failed"
                /\ returned' = "None"
                /\ UNCHANGED conversations
    /\ UNCHANGED <<strategy, max_tokens, packing, splitting, grouping,
                   clustering, calls, sharing, data, written>>
    /\ UNCHANGED elsewhere

\* lines 323-332: the strategy is called, or the name is refused
ProcessDispatch ==
    /\ pc = "file_loaded"
    /\ LET function == Dispatched(strategy)
       IN  CASE function = "size" -> EnterSize /\ UNCHANGED returned
             [] function = "topic" -> EnterTopic /\ UNCHANGED returned
             [] function = "role" -> EnterRole /\ UNCHANGED returned
             [] OTHER -> /\ pc' = "file_failed"
                         /\ returned' = "None"
                         /\ UNCHANGED <<packing, splitting, grouping,
                                        clustering, sharing>>
    /\ UNCHANGED <<args, calls, data, written>>
    /\ UNCHANGED elsewhere

\* lines 334-351: the result is written and the name of the file returned
ProcessSave ==
    /\ pc = "done" /\ data # NoFile
    /\ written' = Append(written,
                         [file |-> OutputFile(strategy),
                          content |-> ProcessingResult(chunks, strategy,
                                                       max_tokens)])
    /\ returned' = OutputFile(strategy)
    /\ pc' = "file_saved"
    /\ UNCHANGED <<args, packing, splitting, grouping, clustering, calls,
                   sharing, data>>
    /\ UNCHANGED elsewhere

NextFile ==
    \/ ProcessLoad \/ ProcessDispatch \/ ProcessSave
    \/ SizeSteps \/ TopicSteps \/ RoleSteps
SpecFile == InitFile /\ [][NextFile]_vars

(***************************************************************************)
(* count_tokens called by itself on a text.                                *)
(***************************************************************************)
\* no strategy and no process_file is being called
NoChunker ==
    /\ strategy = "size" /\ conversations = <<>> /\ max_tokens = 0
    /\ pc = "idle"
    /\ NoFrame
    /\ data = NoFile /\ written = <<>> /\ returned = "unset"

\* the texts of at most n characters
Texts(n) == UNION {[1..k -> {"a", Quote}] : k \in 0..n}

InitTokens ==
    /\ arg_text \in Texts(MaxText)
    /\ estimate = <<>>
    /\ NoChunker /\ NoPair /\ NoApi

\* lines 35-43: the call returns its estimate
CountTokens ==
    /\ estimate = <<>>
    /\ estimate' = <<count_tokens(arg_text)>>
    /\ UNCHANGED <<arg_text, chunker, pair, api>>

NextTokens == CountTokens
SpecTokens == InitTokens /\ [][NextTokens]_vars

(***************************************************************************)
(* Two calls of process_file on one engine, run by two threads.  The       *)
(* frames of the calls are the entries of invocations; output_dir maps the *)
(* name of an output file to what the file holds: <<>> after open(.., 'w') *)
(* has truncated it, <<document>> after a json.dump.  chunk_by_size, whose  *)
(* frame no other call can reach, is taken as one step.                    *)
(***************************************************************************)
\* lines 76-107: the split loop, from the messages still to visit
RECURSIVE SizeSplitLoop(_, _, _, _, _)
SizeSplitLoop(conv, messages, kept, kept_tokens, budget) ==
    IF messages = <<>>
    THEN IF kept # <<>>
         THEN <<Chunk(<<SizePiece(conv, kept)>>, kept_tokens, "size")>>
         ELSE <<>>
    ELSE LET msg == Head(messages)
             msg_tokens == MsgTokens(msg)
         IN  IF SizeSplitOverflows(kept_tokens, msg_tokens, budget)
             THEN IF kept # <<>>
                  THEN <<Chunk(<<SizePiece(conv, kept)>>, kept_tokens, "size")>>
                       \o SizeSplitLoop(conv, Tail(messages), <<msg>>,
                                        msg_tokens, budget)
                  ELSE SizeSplitLoop(conv, Tail(messages), kept, kept_tokens,
                                     budget)
             ELSE SizeSplitLoop(conv, Tail(messages), Append(kept, msg),
                                kept_tokens + msg_tokens, budget)

\* lines 52-131: the loop over the conversations still to visit, and the
\* last chunk
RECURSIVE SizeLoop(_, _, _, _)
SizeLoop(convs, cur, toks, budget) ==
    IF convs = <<>>
    THEN IF cur # <<>> THEN <<Chunk(cur, toks, "size")>> ELSE <<>>
    ELSE LET conv == Head(convs)
             conv_tokens == ConvTokens(conv)
         IN  IF SizeOversized(conv_tokens, budget)
             THEN SizeFlushed(<<>>, cur, toks, 0).chunks
                  \o SizeSplitLoop(conv, GetMessages(conv), <<>>, 0, budget)
                  \o SizeLoop(Tail(convs), <<>>, 0, budget)
             ELSE IF SizeFits(toks, conv_tokens, budget)
             THEN SizeLoop(Tail(convs), Append(cur, conv), toks + conv_tokens,
                           budget)
             ELSE <<Chunk(cur, toks, "size")>>
                  \o SizeLoop(Tail(convs), <<conv>>, conv_tokens, budget)

\* lines 45-131: what a call of chunk_by_size returns
SizeCall(convs, budget) == SizeLoop(convs, <<>>, 0, budget)

\* the path of a file: its directory, and the stem and the extension of its
\* base name
Path(dir, stem) == [dir |-> dir, stem |-> stem, ext |-> ".json"]
Paths == {Path(dir, stem) : dir \in {"a", "b"}, stem \in {"x", "y"}}

\* the input files: what the file at a path holds
OneShort == WithIds(<<Body(FALSE, <<>>, TRUE, <<Message(Assistant, Hi)>>)>>)
ShortAndLong ==
    WithIds(<<Body(FALSE, <<>>, TRUE, <<Message(Assistant, Hi)>>),
              Body(FALSE, <<>>, TRUE,
                   <<Message(Assistant, Hi), Message(User, LongContent)>>)>>)
FileAt(path) ==
    CASE path = Path("a", "x") -> FileData("list", OneShort)
      [] path = Path("b", "x") -> FileData("wrapper", ShortAndLong)
      [] path = Path("a", "y") -> FileData("list", ShortAndLong)
      [] OTHER -> FileData("scalar", <<>>)

\* the strategy names the two calls are given
PairStrategies == {"size", "other"}

NoName == [stem |-> "", strategy |-> "", ext |-> ""]

\* lines 335-338: the name of the output file in output_dir, made of the
\* base name of the input file and of the strategy name
OutputName(path, name) ==
    [stem |-> path.stem, strategy |-> name, ext |-> path.ext]

\* lines 342-349: the document, with the path of the input file
Document(cs, path, name, budget) ==
    [original_file |-> path] @@ ProcessingResult(cs, name, budget)

\* what two writers leave in a file they both wrote
Garbled == [garbled |-> TRUE]

\* the frame of a call that has not started
Invocation(path, name, budget) ==
    [file_path |-> path, strategy |-> name, max_tokens |-> budget,
     pc |-> "idle", conversations |-> <<>>, chunks |-> <<>>,
     output_file |-> NoName, returned |-> "unset"]

InitPair ==
    /\ \E p1 \in Paths : \E p2 \in Paths \ {p1} :
       \E s1 \in PairStrategies, s2 \in PairStrategies :
       \E b1 \in FileBudgets, b2 \in FileBudgets :
          invocations = <<Invocation(p1, s1, b1), Invocation(p2, s2, b2)>>
    /\ output_dir = NoEntry
    /\ NoChunker /\ NoCounting /\ NoApi

\* lines 309-321: the file is loaded
PairLoad(k) ==
    /\ invocations[k].pc = "idle"
    /\ LET loaded == Loaded(FileAt(invocations[k].file_path))
       IN  invocations' =
             IF loaded.ok
             THEN [invocations EXCEPT ![k].conversations = loaded.conversations,
                                      ![k].pc = "loaded"]
             ELSE [invocations EXCEPT ![k].returned = "None",
                                      ![k].pc = "failed"]
    /\ UNCHANGED <<output_dir, chunker, counting, api>>

\* lines 323-332: the strategy is called, or the name is refused
PairChunk(k) ==
    /\ invocations[k].pc = "loaded"
    /\ LET function == Dispatched(invocations[k].strategy)
       IN  invocations' =
             CASE function = "size" ->
                    [invocations EXCEPT
                       ![k].chunks = SizeCall(invocations[k].conversations,
                                              invocations[k].max_tokens),
                       ![k].pc = "chunked"]
               [] function = "none" ->
                    [invocations EXCEPT ![k].returned = "None",
                                        ![k].pc = "failed"]
    /\ UNCHANGED <<output_dir, chunker, counting, api>>

\* lines 334-341: the name is made and the file opened for writing
PairOpen(k) ==
    /\ invocations[k].pc = "chunked"
    /\ LET output_file == OutputName(invocations[k].file_path,
                                     invocations[k].strategy)
       IN  /\ invocations' = [invocations EXCEPT ![k].output_file = output_file,
                                                 ![k].pc = "opened"]
           /\ output_dir' = (output_file :> <<>>) @@ output_dir
    /\ UNCHANGED <<chunker, counting, api>>

\* lines 342-351: the document is written, the file closed and its name
\* returned; a file another call has written since it was opened holds
\* the document or a mix of the two
PairDump(k) ==
    /\ invocations[k].pc = "opened"
    /\ LET output_file == invocations[k].output_file
           document == Document(invocations[k].chunks,
                                invocations[k].file_path,
                                invocations[k].strategy,
                                invocations[k].max_tokens)
       IN  \E content \in {document, Garbled} :
              /\ output_dir[output_file] = <<>> => content = document
              /\ output_dir' = [output_dir EXCEPT ![output_file] = <<content>>]
    /\ invocations' = [invocations EXCEPT ![k].returned = "output_file",
                                          ![k].pc = "returned"]
    /\ UNCHANGED <<chunker, counting, api>>

NextPair ==
    \/ \E k \in {1, 2} : PairLoad(k)
    \/ \E k \in {1, 2} : PairChunk(k)
    \/ \E k \in {1, 2} : PairOpen(k)
    \/ \E k \in {1, 2} : PairDump(k)
SpecPair == InitPair /\ [][NextPair]_vars

(***************************************************************************)
(* The injection and processing endpoints of the API                       *)
(* (src/api/app/api/endpoints/injection.py and processing.py).  The        *)
(* handlers and the background tasks are coroutines of one event loop: a   *)
(* step of the model runs a coroutine from one await to the next.          *)
(* background_tasks holds the frame of the background task of every task   *)
(* id; a progress is the fraction num / den.                               *)
(***************************************************************************)
\* schemas.py, lines 60-64: ProcessingStatus
PENDING == "pending"
PROCESSING == "processing"
COMPLETED == "completed"
FAILED == "failed"

Ratio(num, den) == [num |-> num, den |-> den]
RatioLeq(p, q) == p.num * q.den <= q.num * p.den

\* str(uuid.uuid4()): the ids the API makes, in the order it makes them;
\* no task has the id t0
TaskIds == <<"t1", "t2">>
TaskId(n) == TaskIds[n]
TasksMade ==
    Cardinality(DOMAIN injection_tasks \cup DOMAIN processing_tasks
                \cup DOMAIN export_tasks)
AskedIds == Range(TaskIds) \cup {"t0"}

\* the conversation ids of a request, and config.retry_attempts
RequestedIds(n) == [p \in 1..n |-> <<"c", "o", "n", "v", Digits[p + 1]>>]
RetryAttempts == {0, 1, 2}

Response(endpoint, task_id, code, detail) ==
    [endpoint |-> endpoint, task_id |-> task_id, code |-> code,
     detail |-> detail]

\* a task store with one more task, or with a task replaced
Stored(tasks, task_id, task) ==
    [t \in DOMAIN tasks \cup {task_id} |->
        IF t = task_id THEN task ELSE tasks[t]]

InitTasks == NoChunker /\ NoCounting /\ NoPair /\ NoApi

\* injection.py, lines 87-111: inject_memory
InjectMemory ==
    /\ TasksMade < Len(TaskIds)
    /\ \E n \in 0..MaxIds, retry_attempts \in RetryAttempts :
          LET task_id == TaskId(TasksMade + 1)
              task == [task_id |-> task_id, status |-> PENDING,
                       progress |-> Ratio(0, 1),
                       message |-> <<"Task initialized">>,
                       successful_injections |-> 0,
                       failed_injections |-> 0]
          IN  /\ injection_tasks' = Stored(injection_tasks, task_id, task)
              /\ background_tasks' =
                    Stored(background_tasks, task_id,
                           [function |-> "inject_memory_task",
                            pc |-> "queued",
                            conversation_ids |-> RequestedIds(n),
                            retry_attempts |-> retry_attempts,
                            i |-> 0, attempt |-> 0,
                            successful |-> 0, failed |-> 0])
              /\ response' = Response("inject_memory", task_id, 200, "")
    /\ UNCHANGED <<processing_tasks, export_tasks, export_files, chunker,
                   counting, pair>>

\* lines 65-67: the task is completed
InjectCompleted(task) ==
    [task EXCEPT !.status = COMPLETED, !.progress = Ratio(1, 1),
                 !.message = <<"Injection completed">>]

\* lines 55-67 and 32-34: the conversation is counted, and the task goes
\* to the next conversation or completes
InjectCounted(task, frame, success) ==
    LET successful == frame.successful + (IF success THEN 1 ELSE 0)
        failed == frame.failed + (IF success THEN 0 ELSE 1)
        counted == [task EXCEPT !.successful_injections = successful,
                                !.failed_injections = failed]
        more == frame.i + 1 < Len(frame.conversation_ids)
    IN  [task |-> IF more THEN counted ELSE InjectCompleted(counted),
         frame |-> [frame EXCEPT !.successful = successful,
                                 !.failed = failed,
                                 !.i = IF more THEN @ + 1 ELSE @,
                                 !.pc = IF more THEN "sleep_item"
                                                ELSE "ended"]]

\* a faulty range: one attempt more than retry_attempts
RetryRangeInclusive(retry_attempts) == 0..retry_attempts

\* line 43: range(config.retry_attempts)
RetryRange(retry_attempts) == 0..(retry_attempts - 1)

InjectStep(task_id, step) ==
    /\ injection_tasks' = [injection_tasks EXCEPT ![task_id] = step.task]
    /\ background_tasks' = [background_tasks EXCEPT ![task_id] = step.frame]
    /\ UNCHANGED <<processing_tasks, export_tasks, export_files, response,
                   chunker, counting, pair>>

\* lines 25-34: the background task starts
InjectStart(task_id) ==
    /\ task_id \in DOMAIN injection_tasks
    /\ background_tasks[task_id].pc = "queued"
    /\ LET frame == background_tasks[task_id]
           task == [injection_tasks[task_id] EXCEPT !.status = PROCESSING]
       IN  InjectStep(task_id,
             IF frame.conversation_ids = <<>>
             THEN [task |-> InjectCompleted(task),
                   frame |-> [frame EXCEPT !.pc = "ended"]]
             ELSE [task |-> task,
                   frame |-> [frame EXCEPT !.pc = "sleep_item"]])

\* lines 36-45: the progress of the conversation, and its first attempt
InjectItem(task_id) ==
    /\ task_id \in DOMAIN injection_tasks
    /\ background_tasks[task_id].pc = "sleep_item"
    /\ LET frame == background_tasks[task_id]
           total_conversations == Len(frame.conversation_ids)
           task == [injection_tasks[task_id] EXCEPT
                      !.progress = Ratio(frame.i + 1, total_conversations),
                      !.message = <<"Injecting conversation", frame.i + 1,
                                    total_conversations>>]
       IN  InjectStep(task_id,
             IF 0 \in RetryRange(frame.retry_attempts)
             THEN [task |-> task,
                   frame |-> [frame EXCEPT !.attempt = 0,
                                           !.pc = "sleep_call"]]
             ELSE InjectCounted(task, frame, FALSE))

\* lines 47-53: the attempt succeeds or fails
InjectCall(task_id) ==
    /\ task_id \in DOMAIN injection_tasks
    /\ background_tasks[task_id].pc = "sleep_call"
    /\ LET frame == background_tasks[task_id]
           task == injection_tasks[task_id]
       IN  \E success \in BOOLEAN :
              InjectStep(task_id,
                IF success
                THEN InjectCounted(task, frame, TRUE)
                ELSE [task |-> task,
                      frame |-> [frame EXCEPT !.pc = "sleep_retry"]])

\* lines 43-45 and 53: after the retry delay, the next attempt if any
InjectRetried(task_id) ==
    /\ task_id \in DOMAIN injection_tasks
    /\ background_tasks[task_id].pc = "sleep_retry"
    /\ LET frame == background_tasks[task_id]
           task == injection_tasks[task_id]
       IN  InjectStep(task_id,
             IF frame.attempt + 1 \in RetryRange(frame.retry_attempts)
             THEN [task |-> task,
                   frame |-> [frame EXCEPT !.attempt = @ + 1,
                                           !.pc = "sleep_call"]]
             ELSE InjectCounted(task, frame, FALSE))

\* lines 156-168 of injection.py and 146-158 of processing.py: what a
\* cancel leaves of the store and answers
Cancelled(tasks, task_id, endpoint) ==
    IF task_id \notin DOMAIN tasks
    THEN [tasks |-> tasks,
          response |-> Response(endpoint, task_id, 404, "Task not found")]
    ELSE IF tasks[task_id].status \in {COMPLETED, FAILED}
    THEN [tasks |-> tasks,
          response |-> Response(endpoint, task_id, 400,
                                "Task already completed or failed")]
    ELSE [tasks |-> [tasks EXCEPT
                       ![task_id].status = FAILED,
                       ![task_id].message = <<"Task cancelled by user">>],
          response |-> Response(endpoint, task_id, 200,
                                "Task cancelled successfully")]

\* injection.py, lines 138-168: cancel_injection_task
CancelInjectionTask(task_id) ==
    /\ LET cancelled == Cancelled(injection_tasks, task_id,
                                  "cancel_injection_task")
       IN  /\ injection_tasks' = cancelled.tasks
           /\ response' = cancelled.response
    /\ UNCHANGED <<processing_tasks, export_tasks, export_files,
                   background_tasks, chunker, counting, pair>>

\* processing.py, lines 58-100: process_conversations
ProcessConversations ==
    /\ TasksMade < Len(TaskIds)
    /\ \E n \in 0..MaxIds, enabled \in BOOLEAN :
          LET task_id == TaskId(TasksMade + 1)
              task == [task_id |-> task_id, status |-> PENDING,
                       progress |-> Ratio(0, 1),
                       message |-> <<"Task initialized">>,
                       result |-> <<>>]
          IN  /\ processing_tasks' = Stored(processing_tasks, task_id, task)
              /\ background_tasks' =
                    Stored(background_tasks, task_id,
                           [function |-> "process_conversations_task",
                            pc |-> "queued",
                            conversation_ids |-> RequestedIds(n),
                            summarization |-> enabled,
                            i |-> 0])
              /\ response' = Response("process_conversations", task_id, 200, "")
    /\ UNCHANGED <<injection_tasks, export_tasks, export_files, chunker,
                   counting, pair>>

\* processing.py, lines 50-56: the task is completed
ProcessCompleted(task, frame) ==
    [task EXCEPT
       !.status = COMPLETED, !.progress = Ratio(1, 1),
       !.message = <<"Processing completed">>,
       !.result = <<[processed_conversations |-> Len(frame.conversation_ids),
                     total_chunks |-> Len(frame.conversation_ids) * 3,
                     summarization_applied |-> frame.summarization]>>]

\* processing.py, lines 30-32 and 50-56: the next conversation, or the end
ProcessAdvanced(task, frame) ==
    IF frame.i + 1 < Len(frame.conversation_ids)
    THEN [task |-> task,
          frame |-> [frame EXCEPT !.i = @ + 1, !.pc = "sleep_item"]]
    ELSE [task |-> ProcessCompleted(task, frame),
          frame |-> [frame EXCEPT !.pc = "ended"]]

ProcessStep(task_id, step) ==
    /\ processing_tasks' = [processing_tasks EXCEPT ![task_id] = step.task]
    /\ background_tasks' = [background_tasks EXCEPT ![task_id] = step.frame]
    /\ UNCHANGED <<injection_tasks, export_tasks, export_files, response,
                   chunker, counting, pair>>

\* processing.py, lines 25-32: the background task starts
ProcessStart(task_id) ==
    /\ task_id \in DOMAIN processing_tasks
    /\ background_tasks[task_id].pc = "queued"
    /\ LET frame == background_tasks[task_id]
           task == [processing_tasks[task_id] EXCEPT !.status = PROCESSING]
       IN  ProcessStep(task_id,
             IF frame.conversation_ids = <<>>
             THEN [task |-> ProcessCompleted(task, frame),
                   frame |-> [frame EXCEPT !.pc = "ended"]]
             ELSE [task |-> task,
                   frame |-> [frame EXCEPT !.pc = "sleep_item"]])

\* processing.py, lines 34-47: the progress of the conversation
ProcessItem(task_id) ==
    /\ task_id \in DOMAIN processing_tasks
    /\ background_tasks[task_id].pc = "sleep_item"
    /\ LET frame == background_tasks[task_id]
           total_conversations == Len(frame.conversation_ids)
           task == [processing_tasks[task_id] EXCEPT
                      !.progress = Ratio(frame.i + 1, total_conversations),
                      !.message = <<"Processing conversation", frame.i + 1,
                                    total_conversations>>]
       IN  ProcessStep(task_id,
             IF frame.summarization
             THEN [task |-> task,
                   frame |-> [frame EXCEPT !.pc = "sleep_summary"]]
             ELSE ProcessAdvanced(task, frame))

\* processing.py, line 47: the summarization has been waited for
ProcessSummarized(task_id) ==
    /\ task_id \in DOMAIN processing_tasks
    /\ background_tasks[task_id].pc = "sleep_summary"
    /\ ProcessStep(task_id, ProcessAdvanced(processing_tasks[task_id],
                                            background_tasks[task_id]))

\* processing.py, lines 128-158: cancel_processing_task
CancelProcessingTask(task_id) ==
    /\ LET cancelled == Cancelled(processing_tasks, task_id,
                                  "cancel_processing_task")
       IN  /\ processing_tasks' = cancelled.tasks
           /\ response' = cancelled.response
    /\ UNCHANGED <<injection_tasks, export_tasks, export_files,
                   background_tasks, chunker, counting, pair>>

NextTasks ==
    \/ InjectMemory
    \/ \E task_id \in AskedIds : InjectStart(task_id)
    \/ \E task_id \in AskedIds : InjectItem(task_id)
    \/ \E task_id \in AskedIds : InjectCall(task_id)
    \/ \E task_id \in AskedIds : InjectRetried(task_id)
    \/ \E task_id \in AskedIds : CancelInjectionTask(task_id)
    \/ ProcessConversations
    \/ \E task_id \in AskedIds : ProcessStart(task_id)
    \/ \E task_id \in AskedIds : ProcessItem(task_id)
    \/ \E task_id \in AskedIds : ProcessSummarized(task_id)
    \/ \E task_id \in AskedIds : CancelProcessingTask(task_id)
SpecTasks == InitTasks /\ [][NextTasks]_vars

(***************************************************************************)
(* The export endpoints of the API (src/api/app/api/endpoints/export.py).  *)
(* The text of an export is kept as what it was formatted from.            *)
(***************************************************************************)
\* lines 30-51: the keys of fake_conversations_db
KnownIds == {"conv1", "conv2"}

\* the conversation ids of an export request, of a known and an unknown
\* conversation, and the formats of schemas.py, lines 75-78
ExportIds(n) == UNION {[1..k -> {"conv1", "conv9"}] : k \in 0..n}
ExportFormats == {"json", "csv", "txt"}

\* lines 61-65: the known ids of the request, each once, in the order of
\* their first occurrence
RECURSIVE ToExport(_, _)
ToExport(ids, kept) ==
    IF ids = <<>> THEN kept
    ELSE ToExport(Tail(ids),
                  IF Head(ids) \in KnownIds /\ Head(ids) \notin Range(kept)
                  THEN Append(kept, Head(ids)) ELSE kept)

\* lines 75-135: the text of the export
Formatted(ids, format, include_metadata) ==
    [conversations |-> ids, format |-> format,
     include_metadata |-> include_metadata]

\* line 138: file_id = f"export_{task_id}"
FileId(task_id) == <<"export_", task_id>>

\* a faulty store: the file is not kept
ExportStoredNowhere(files, file_id, content, format) == files

\* lines 139-142: the file is kept under its id
ExportStored(files, file_id, content, format) ==
    Stored(files, file_id, [content |-> content, format |-> format])

DownloadResponse(task_id, code, detail, content) ==
    [endpoint |-> "download_export", task_id |-> task_id, code |-> code,
     detail |-> detail, content |-> content]

InitExport == NoChunker /\ NoCounting /\ NoPair /\ NoApi

\* lines 170-195: export_conversations
ExportConversations ==
    /\ TasksMade < Len(TaskIds)
    /\ \E ids \in ExportIds(MaxIds), format \in ExportFormats,
          include_metadata \in BOOLEAN :
          LET task_id == TaskId(TasksMade + 1)
          IN  /\ export_tasks' =
                    Stored(export_tasks, task_id,
                           [status |-> PENDING, progress |-> Ratio(0, 1),
                            message |-> "Task initialized"])
              /\ background_tasks' =
                    Stored(background_tasks, task_id,
                           [function |-> "export_conversations_task",
                            pc |-> "queued",
                            conversation_ids |-> ids,
                            format |-> format,
                            include_metadata |-> include_metadata])
              /\ response' = Response("export_conversations", task_id, 200, "")
    /\ UNCHANGED <<injection_tasks, processing_tasks, export_files, chunker,
                   counting, pair>>

\* lines 53-68: the background task starts
ExportStart(task_id) ==
    /\ task_id \in DOMAIN export_tasks
    /\ background_tasks[task_id].pc = "queued"
    /\ export_tasks' =
          [export_tasks EXCEPT ![task_id] =
              [status |-> PROCESSING, progress |-> Ratio(0, 1),
               message |-> "Starting export"]]
    /\ background_tasks' = [background_tasks EXCEPT ![task_id].pc = "sleep"]
    /\ UNCHANGED <<injection_tasks, processing_tasks, export_files, response,
                   chunker, counting, pair>>

\* lines 70-150: the export is formatted, the file stored and, after it, the
\* task completed
ExportFinish(task_id) ==
    /\ task_id \in DOMAIN export_tasks
    /\ background_tasks[task_id].pc = "sleep"
    /\ LET frame == background_tasks[task_id]
           export_content ==
               Formatted(ToExport(frame.conversation_ids, <<>>), frame.format,
                         frame.include_metadata)
           file_id == FileId(task_id)
       IN  /\ export_files' = ExportStored(export_files, file_id,
                                           export_content, frame.format)
           /\ export_tasks' =
                 [export_tasks EXCEPT ![task_id] =
                     [status |-> COMPLETED, progress |-> Ratio(1, 1),
                      message |-> "Export completed", file_id |-> file_id]]
    /\ background_tasks' = [background_tasks EXCEPT ![task_id].pc = "ended"]
    /\ UNCHANGED <<injection_tasks, processing_tasks, response, chunker,
                   counting, pair>>

\* lines 240-259: what download_export answers
Downloaded(tasks, files, export_id) ==
    IF export_id \notin DOMAIN tasks
    THEN DownloadResponse(export_id, 404, "Export task not found", <<>>)
    ELSE IF tasks[export_id].status # COMPLETED
    THEN DownloadResponse(export_id, 400, "Export not yet completed", <<>>)
    ELSE IF \/ "file_id" \notin DOMAIN tasks[export_id]
            \/ tasks[export_id].file_id \notin DOMAIN files
    THEN DownloadResponse(export_id, 404, "Export file not found", <<>>)
    ELSE LET file_info == files[tasks[export_id].file_id]
         IN  DownloadResponse(export_id, 200, "",
                <<[content |-> file_info.content,
                   format |-> file_info.format,
                   filename |-> <<"export_", export_id, ".",
                                  file_info.format>>]>>)

\* lines 222-259: download_export
DownloadExport(export_id) ==
    /\ response' = Downloaded(export_tasks, export_files, export_id)
    /\ UNCHANGED <<injection_tasks, processing_tasks, export_tasks,
                   export_files, background_tasks, chunker, counting, pair>>

NextExport ==
    \/ ExportConversations
    \/ \E task_id \in AskedIds : ExportStart(task_id)
    \/ \E task_id \in AskedIds : ExportFinish(task_id)
    \/ \E export_id \in AskedIds : DownloadExport(export_id)
SpecExport == InitExport /\ [][NextExport]_vars

(***************************************************************************)
(* Properties.                                                             *)
(***************************************************************************)
Done == pc = "done"

\* the conversation entries of a chunk list, in emitted order
Entries(cs) == Concat([p \in DOMAIN cs |-> cs[p].conversations])

\* the messages of a list of conversations or entries, each with the id of
\* the conversation it belongs to
FlatMsgs(convs) ==
    Concat([p \in DOMAIN convs |->
               [q \in DOMAIN GetMessages(convs[p]) |->
                   <<convs[p].id, GetMessages(convs[p])[q]>>]])

EntryCosts(chunk) ==
    SumSeq([p \in DOMAIN chunk.conversations |-> ConvTokens(chunk.conversations[p])])

\* C1: every chunk emitted by any strategy has token_count <= max_tokens,
\* unless it holds exactly one entry whose own cost exceeds max_tokens; for a
\* chunk of the size or role strategy that entry is then a split piece of
\* exactly one message, which alone exceeds the budget.
TokenBudget ==
    \A p \in DOMAIN chunks :
        \/ chunks[p].token_count <= max_tokens
        \/ /\ Len(chunks[p].conversations) = 1
           /\ ConvTokens(chunks[p].conversations[1]) > max_tokens
           /\ strategy # "topic" =>
                 LET entry == chunks[p].conversations[1]
                 IN  /\ entry.chunked \/ entry.chunked_by_role
                     /\ Len(entry.messages) = 1
                     /\ MsgTokens(entry.messages[1]) > max_tokens

\* a call has returned a chunk over the budget, next to a chunk of several
\* entries within it
TokenBudgetWitness ==
    /\ Done
    /\ \E p \in DOMAIN chunks : chunks[p].token_count > max_tokens
    /\ \E p \in DOMAIN chunks :
          /\ Len(chunks[p].conversations) >= 2
          /\ chunks[p].token_count <= max_tokens
          /\ chunks[p].token_count > max_tokens \div 2

\* adjacent split pieces of one conversation put together again
RECURSIVE MergePieces(_, _)
MergePieces(entries, merged) ==
    IF entries = <<>> THEN merged
    ELSE LET e == Head(entries)
             n == Len(merged)
         IN  IF /\ e.chunked /\ n > 0
                /\ merged[n].chunked /\ merged[n].id = e.id
             THEN MergePieces(Tail(entries),
                    [merged EXCEPT ![n].messages = merged[n].messages \o e.messages])
             ELSE MergePieces(Tail(entries), Append(merged, e))

\* C2: at the return of chunk_by_size the entries of all chunks, in emitted
\* order and with the pieces of a split conversation put together, are the
\* input conversations in input order, each with all its messages in order
\* (a split conversation carries the _chunked marker).
SizeOrderPreserved ==
    (Done /\ strategy = "size") =>
        LET merged == MergePieces(Entries(chunks), <<>>)
        IN  /\ Len(merged) = Len(conversations)
            /\ \A p \in DOMAIN conversations :
                  \/ merged[p] = conversations[p]
                  \/ merged[p] = SizePiece(conversations[p],
                                           GetMessages(conversations[p]))

\* C3: at the return of chunk_by_role the messages of the entries of all
\* chunks, in emitted order, are the messages of the input in conversation
\* and message order.  Stated for the calls that emit as many messages as the
\* input holds, so that a violation is one of order.
RoleOrderPreserved ==
    (/\ Done /\ strategy = "role"
     /\ Len(FlatMsgs(Entries(chunks))) = Len(FlatMsgs(conversations)))
        => FlatMsgs(Entries(chunks)) = FlatMsgs(conversations)

\* C4: at the return of chunk_by_size and chunk_by_role the entries of the
\* chunks hold as many messages as the input conversations.
MessagesComplete ==
    (Done /\ strategy \in {"size", "role"}) =>
        Len(FlatMsgs(Entries(chunks))) = Len(FlatMsgs(conversations))

\* C5: at the return of chunk_by_size and chunk_by_role every message whose
\* own cost exceeds max_tokens stands alone in a chunk of its own, wherever
\* it stands in its conversation.
OversizedMessageEmitted ==
    (Done /\ strategy \in {"size", "role"}) =>
        \A p \in DOMAIN conversations :
            \A q \in DOMAIN GetMessages(conversations[p]) :
                LET msg == GetMessages(conversations[p])[q]
                IN  MsgTokens(msg) > max_tokens =>
                        \E k \in DOMAIN chunks :
                            /\ Len(chunks[k].conversations) = 1
                            /\ chunks[k].conversations[1].id = conversations[p].id
                            /\ chunks[k].conversations[1].messages = <<msg>>

\* C6: the token_count of every emitted chunk is the sum of the estimated
\* tokens of the serializations of its entries, split pieces included.
TokenCountIsEntryCosts ==
    \A p \in DOMAIN chunks : chunks[p].token_count = EntryCosts(chunks[p])

\* C7: at the return of chunk_by_topic every input conversation is the entry
\* of exactly one chunk, once: the entries are as many as the input
\* conversations and each input position occurs among them exactly once.
TopicPartition ==
    (Done /\ strategy = "topic") =>
        LET entries == Entries(chunks)
        IN  /\ Len(entries) = Len(conversations)
            /\ \A p \in DOMAIN conversations :
                  Cardinality({q \in DOMAIN entries :
                                  entries[q] = conversations[p]}) = 1

\* the topic strategy has returned several clusters of three conversations,
\* one of them with a member that a later seed passes over
TopicPartitionWitness ==
    /\ Done /\ strategy = "topic"
    /\ Len(conversations) = 3
    /\ Len(chunks) = 2
    /\ Len(chunks[1].conversations) = 2
    /\ chunks[1].conversations[2] = conversations[3]
    /\ Similar(topics[2], topics[3])

NoneOversized == \A p \in DOMAIN conversations :
                    ConvTokens(conversations[p]) <= max_tokens

\* C9: when no conversation costs more than max_tokens, chunk_by_size returns
\* the greedy packing in input order: the chunks are non-empty consecutive
\* runs of the input, the token_count of each is the sum of the costs of its
\* conversations and at most max_tokens, and no chunk but the last has room
\* for the first conversation of the next one.  Costs 100, 100 with budget
\* 1000 give one chunk of 200; costs 900, 200 give chunks of 900 and 200.
GreedyPacking ==
    (Done /\ strategy = "size" /\ NoneOversized) =>
        /\ Entries(chunks) = conversations
        /\ \A p \in DOMAIN chunks :
              /\ chunks[p].conversations # <<>>
              /\ chunks[p].token_count = EntryCosts(chunks[p])
              /\ chunks[p].token_count <= max_tokens
              /\ p < Len(chunks) =>
                    chunks[p].token_count
                      + ConvTokens(chunks[p + 1].conversations[1]) > max_tokens
        /\ (conversations = ScenarioA /\ max_tokens = 1000) =>
              chunks = <<Chunk(ScenarioA, 200, "size")>>
        /\ (conversations = ScenarioB /\ max_tokens = 1000) =>
              chunks = << Chunk(<<ScenarioB[1]>>, 900, "size"),
                          Chunk(<<ScenarioB[2]>>, 200, "size") >>

\* three conversations that all fit are packed into a chunk of two that is
\* exactly full and a chunk of one
GreedyPackingWitness ==
    /\ Done /\ strategy = "size" /\ NoneOversized
    /\ Len(conversations) = 3
    /\ Len(chunks) = 2
    /\ Len(chunks[1].conversations) = 2
    /\ chunks[1].token_count = max_tokens

ScenarioCReturned ==
    Done /\ strategy = "size" /\ conversations = ScenarioC /\ max_tokens = 1000

OnePiece(chunk) ==
    /\ Len(chunk.conversations) = 1
    /\ chunk.conversations[1].chunked

\* C10 as stated: Scenario C returns three chunks, each a single partial
\* conversation of at most 3 messages marked _chunked.
ScenarioCThreeChunks ==
    ScenarioCReturned =>
        /\ Len(chunks) = 3
        /\ \A p \in DOMAIN chunks :
              /\ OnePiece(chunks[p])
              /\ Len(chunks[p].conversations[1].messages) <= 3

\* C10 amended: Scenario C returns four chunks, each a single partial
\* conversation marked _chunked, of 3, 3, 3 and 1 messages in message order,
\* with token counts 900, 900, 900 and 300.
ScenarioCFourChunks ==
    ScenarioCReturned =>
        /\ Len(chunks) = 4
        /\ \A p \in DOMAIN chunks : OnePiece(chunks[p])
        /\ [p \in DOMAIN chunks |-> Len(chunks[p].conversations[1].messages)]
              = <<3, 3, 3, 1>>
        /\ [p \in DOMAIN chunks |-> chunks[p].token_count] = <<900, 900, 900, 300>>
        /\ FlatMsgs(Entries(chunks)) = FlatMsgs(conversations)

ScenarioCWitness == ScenarioCReturned /\ Len(chunks) > 3

\* the place in the input of the conversation an entry was made from
PositionOf(entry) ==
    CHOOSE p \in DOMAIN conversations : conversations[p].id = entry.id

HasPiece(chunk) ==
    \E q \in DOMAIN chunk.conversations : chunk.conversations[q].chunked

\* C11: in chunk_by_size, while an oversized conversation is split the
\* current chunk is empty with running total 0, the conversations before it
\* that are not oversized stand, whole and in order, in the chunks emitted
\* so far (the current chunk was emitted, not dropped, before the pieces);
\* every piece is marked _chunked and is the only entry of its chunk; the
\* entries follow the order of the input; and the conversation that follows
\* a split one finds an empty current chunk with running total 0.
SizeFlushBeforeSplit ==
    (strategy = "size" /\ pc \in {"size_loop", "size_split", "done"}) =>
        LET held == Entries(chunks) \o current_chunk
            emitted == IF pc = "done" THEN Entries(chunks) ELSE held
            whole == SelectSeq(emitted, LAMBDA e : ~e.chunked)
            reached == SubSeq(conversations, 1, conv_pos - 1)
            small == SelectSeq(reached, LAMBDA c : ConvTokens(c) <= max_tokens)
        IN  /\ pc = "size_split" =>
                  /\ current_chunk = <<>> /\ current_tokens = 0
                  /\ SelectSeq(Entries(chunks), LAMBDA e : ~e.chunked) = small
            /\ whole = small
            /\ \A p \in DOMAIN chunks :
                  HasPiece(chunks[p]) => Len(chunks[p].conversations) = 1
            /\ \A q \in DOMAIN current_chunk : ~current_chunk[q].chunked
            /\ \A p, q \in DOMAIN emitted :
                  p <= q => PositionOf(emitted[p]) <= PositionOf(emitted[q])
            /\ (/\ pc = "size_loop" /\ conv_pos > 1
                /\ ConvTokens(conversations[conv_pos - 1]) > max_tokens)
                  => current_chunk = <<>> /\ current_tokens = 0

\* chunk_by_size has returned a chunk of whole conversations, then a piece,
\* then a chunk of whole conversations
SizeFlushWitness ==
    /\ Done /\ strategy = "size"
    /\ \E p \in DOMAIN chunks :
          /\ p > 1 /\ p < Len(chunks)
          /\ HasPiece(chunks[p])
          /\ ~HasPiece(chunks[p - 1])
          /\ ~HasPiece(chunks[p + 1])

\* C12: in chunk_by_role, while an oversized role group is split the outer
\* running chunk has been flushed: it is empty, with running total 0.
RoleFlushBeforeSplit ==
    (strategy = "role" /\ pc = "role_split") =>
        current_chunk = <<>> /\ current_tokens = 0

\* a sequence of messages of one role, not empty
OneRole(messages) ==
    /\ messages # <<>>
    /\ \A q \in DOMAIN messages : messages[q].role = messages[1].role

\* maximal runs: each of one role, neighbours of different roles
MaximalRuns(groups) ==
    /\ \A g \in DOMAIN groups : OneRole(groups[g])
    /\ \A g \in DOMAIN groups :
          g < Len(groups) => groups[g][1].role # groups[g + 1][1].role

\* the budget takes every conversation as a single group, so no group is
\* oversized
EveryGroupFits ==
    \A p \in DOMAIN conversations :
        ConvTokens(RolePiece(conversations[p], GetMessages(conversations[p])))
            <= max_tokens

\* C13: in chunk_by_role the role groups of the conversation at hand are
\* maximal runs of messages of one role that, put together in order, are its
\* message list; when no group is oversized the entries returned for a
\* conversation are copies of it that carry exactly these runs, in order;
\* roles user, user, assistant, user give groups of 2, 1 and 1 messages.
RoleGroupsAreRuns ==
    /\ (strategy = "role" /\ pc \in {"role_loop", "role_split"} /\ conv_pos >= 1)
          => /\ Concat(role_groups) = GetMessages(conversations[conv_pos])
             /\ MaximalRuns(role_groups)
             /\ conversations = ScenarioD =>
                   [g \in DOMAIN role_groups |-> Len(role_groups[g])] = <<2, 1, 1>>
    /\ (Done /\ strategy = "role" /\ EveryGroupFits)
          => LET entries == Entries(chunks)
             IN  /\ FlatMsgs(entries) = FlatMsgs(conversations)
                 /\ \A p \in DOMAIN conversations :
                       MaximalRuns(
                         [q \in DOMAIN SelectSeq(entries,
                                         LAMBDA e : e.id = conversations[p].id)
                            |-> SelectSeq(entries,
                                  LAMBDA e : e.id = conversations[p].id)[q].messages])
                 /\ \A q \in DOMAIN entries :
                       entries[q] = RolePiece(conversations[PositionOf(entries[q])],
                                              entries[q].messages)
                 /\ conversations = ScenarioD =>
                       [q \in DOMAIN entries |-> Len(entries[q].messages)]
                          = <<2, 1, 1>>

\* chunk_by_role has returned, nothing oversized, a conversation of three
\* messages as a run of two and a run of one
RoleGroupsWitness ==
    /\ Done /\ strategy = "role" /\ EveryGroupFits
    /\ conversations # ScenarioD
    /\ \E p \in DOMAIN conversations :
          /\ Len(GetMessages(conversations[p])) = 3
          /\ Len(SelectSeq(Entries(chunks),
                           LAMBDA e : e.id = conversations[p].id)) = 2

\* the words of the topic signal of a conversation, and the criterion of
\* the specification: common words over the words of the seed, above 0.3
TopicWords(conv) == WordSet(Lower(TopicOf(conv)))

OverThreshold(seed, other) ==
    LET common == TopicWords(seed) \cap TopicWords(other)
        of_seed == Cardinality(TopicWords(seed))
    IN  10 * Cardinality(common) > 3 * (IF of_seed = 0 THEN 1 ELSE of_seed)

\* C14: at the return of chunk_by_topic the first entry of a chunk is its
\* seed; a later conversation that no earlier chunk holds is in the chunk
\* exactly when its similarity to the seed is above 0.3 and its cost fits on
\* top of the seed and of the members before it; hence every other member of
\* a chunk has similarity above 0.3 to the first.  A similarity of 0.3
\* exactly does not join.
TopicJoinCriterion ==
    (Done /\ strategy = "topic") =>
        /\ \A k \in DOMAIN chunks :
              LET members == [q \in DOMAIN chunks[k].conversations |->
                                 PositionOf(chunks[k].conversations[q])]
                  seed == members[1]
                  earlier == {PositionOf(e) :
                                 e \in Range(Entries(SubSeq(chunks, 1, k - 1)))}
                  Before(n) == SelectSeq(members, LAMBDA m : m < n)
                  Running(n) ==
                      SumSeq([q \in DOMAIN Before(n) |->
                                 ConvTokens(conversations[Before(n)[q]])])
              IN  /\ chunks[k].conversations # <<>>
                  /\ \A q \in 2..Len(members) :
                        /\ members[q] > members[q - 1]
                        /\ OverThreshold(conversations[seed],
                                         conversations[members[q]])
                  /\ \A n \in (seed + 1)..Len(conversations) :
                        n \notin earlier =>
                            (n \in Range(members) <=>
                                /\ OverThreshold(conversations[seed],
                                                 conversations[n])
                                /\ Running(n) + ConvTokens(conversations[n])
                                      <= max_tokens)
        /\ conversations = ThresholdCase => Len(chunks) = 2

\* chunk_by_topic has returned a chunk of the first and the third of three
\* conversations; the second, whose own words are all in the first, was
\* passed over
TopicJoinWitness ==
    /\ Done /\ strategy = "topic"
    /\ Len(conversations) = 3
    /\ Len(chunks) = 2
    /\ Len(chunks[1].conversations) = 2
    /\ chunks[1].conversations[2] = conversations[3]
    /\ OverThreshold(conversations[2], conversations[1])
    /\ ~OverThreshold(conversations[1], conversations[2])
    /\ ConvTokens(conversations[1]) + ConvTokens(conversations[2]) <= max_tokens

TitleWords(conv) == WordSet(Lower(GetTitle(conv)))

\* each conversation alone in a chunk, in input order
OneChunkEach ==
    chunks = [p \in DOMAIN conversations |->
                 Chunk(<<conversations[p]>>, ConvTokens(conversations[p]), "topic")]

\* C15 as stated: for two conversations that have titles, and whose titles
\* share no word, chunk_by_topic returns two chunks of one conversation
\* each, in input order, whatever max_tokens is.
TopicUnrelatedTitles ==
    (/\ Done /\ strategy = "topic" /\ Len(conversations) = 2
     /\ conversations[1].has_title /\ conversations[2].has_title
     /\ TitleWords(conversations[1]) \cap TitleWords(conversations[2]) = {})
        => OneChunkEach

\* C15 amended: for two conversations whose topic signals (the title, or
\* the content of the first message when the title is absent or empty)
\* share no word, chunk_by_topic returns two chunks of one conversation
\* each, in input order, whatever max_tokens is.
TopicUnrelatedSignals ==
    (/\ Done /\ strategy = "topic" /\ Len(conversations) = 2
     /\ TopicWords(conversations[1]) \cap TopicWords(conversations[2]) = {})
        => OneChunkEach

\* chunk_by_topic has returned two conversations with titles that share no
\* word, under a budget that would take both in one chunk
TopicUnrelatedWitness ==
    /\ Done /\ strategy = "topic" /\ Len(conversations) = 2
    /\ TitleWords(conversations[1]) # {} /\ TitleWords(conversations[2]) # {}
    /\ TopicWords(conversations[1]) \cap TopicWords(conversations[2]) = {}
    /\ ConvTokens(conversations[1]) + ConvTokens(conversations[2]) <= max_tokens
    /\ Len(chunks) = 2

\* C16: process_file on a file whose content is neither a list nor an
\* object with the key conversations ends in the error return (None): no
\* strategy has run and nothing was written to the output file.
InvalidInputFails ==
    (data.shape \in {"object", "scalar"} /\ pc # "file_idle") =>
        /\ pc = "file_failed"
        /\ returned = "None"
        /\ written = <<>>
        /\ chunks = <<>> /\ conversations = <<>>

\* process_file has refused an object without the key conversations, the
\* strategy name being one of the three
InvalidInputWitness ==
    /\ pc = "file_failed" /\ data.shape = "object"
    /\ strategy \in Strategies

\* C17: process_file with a strategy name outside size, topic and role ends
\* in the error return (None) once the file is loaded: no strategy function
\* has run and nothing was written to the output file.
UnknownStrategyFails ==
    (strategy \notin {"size", "topic", "role"}
     /\ pc \notin {"file_idle", "file_loaded"}) =>
        /\ pc = "file_failed"
        /\ returned = "None"
        /\ written = <<>>
        /\ chunks = <<>> /\ current_chunk = <<>> /\ topics = <<>>

\* process_file has refused an unknown strategy name on a loaded list of
\* conversations
UnknownStrategyWitness ==
    /\ pc = "file_failed" /\ strategy \notin Strategies
    /\ data.shape = "list" /\ conversations # <<>>

NoMessagesField(conv) == ~conv.has_messages

\* C18: a conversation record without the key messages raises no error in
\* any strategy and counts as a conversation of no message: under topic its
\* signal is its title, or the empty text when it has none; under role it
\* has no role group and no entry in the chunks; under size it is never
\* split into pieces: it is an entry as it stands, once at most.
MissingMessagesTolerated ==
    /\ pc # "raised"
    /\ (strategy = "topic" /\ pc \in {"topic_loop", "topic_scan", "done"}) =>
          \A p \in DOMAIN conversations :
              NoMessagesField(conversations[p]) =>
                  topics[p] = (IF conversations[p].has_title
                               THEN conversations[p].title ELSE <<>>)
    /\ (/\ strategy = "role" /\ pc \in {"role_loop", "role_split"}
        /\ conv_pos >= 1 /\ NoMessagesField(conversations[conv_pos]))
          => role_groups = <<>>
    /\ (Done /\ strategy \in {"size", "role"}) =>
          \A p \in DOMAIN conversations :
              NoMessagesField(conversations[p]) =>
                  LET own == SelectSeq(Entries(chunks),
                                       LAMBDA e : e.id = conversations[p].id)
                  IN  IF strategy = "role" THEN own = <<>>
                      ELSE own \in {<<>>, <<conversations[p]>>}

\* a strategy has returned chunks for an input of several conversations, one
\* of them without the key messages and without a title
MissingMessagesWitness ==
    /\ Done /\ chunks # <<>> /\ Len(conversations) >= 2
    /\ \E p \in DOMAIN conversations :
          NoMessagesField(conversations[p]) /\ ~conversations[p].has_title

\* C19: no step of chunk_by_size, chunk_by_topic or chunk_by_role changes
\* the input: the list of conversations and every record of it (its fields,
\* its messages, the absence of the markers) stay as they were given.
InputNeverWritten == [][conversations' = conversations]_vars

\* chunk_by_size or chunk_by_role has returned a marked copy that carries
\* fewer messages than the conversation it was made from
InputNeverWrittenWitness ==
    /\ Done /\ strategy \in {"size", "role"}
    /\ \E entry \in Range(Entries(chunks)) :
          /\ entry.chunked \/ entry.chunked_by_role
          /\ Len(entry.messages)
                < Len(GetMessages(conversations[PositionOf(entry)]))
    /\ \A p \in DOMAIN conversations :
          ~conversations[p].chunked /\ ~conversations[p].chunked_by_role

\* C20: the list of chunks only grows at its end: no step changes or
\* removes a chunk that was appended (its entries, their messages, its
\* token_count).
ChunksAppendOnly ==
    [][/\ Len(chunks') >= Len(chunks)
       /\ \A p \in DOMAIN chunks : chunks'[p] = chunks[p]]_vars

\* a call has returned at least three chunks; the name current_chunk still
\* holds the list of the last one and the name temp_messages the list of an
\* earlier piece
ChunksAppendOnlyWitness ==
    /\ Done /\ Len(chunks) >= 3
    /\ chunk_alias = Len(chunks)
    /\ temp_alias >= 1 /\ temp_alias < Len(chunks)

\* the places in the input of the entries of a chunk
Places(chunk) ==
    [q \in DOMAIN chunk.conversations |-> PositionOf(chunk.conversations[q])]

\* C21: at the return of chunk_by_topic the chunks stand in increasing
\* order of the place of their first entry, the seed; the seed is the
\* smallest place that no earlier chunk holds; and inside a chunk the places
\* increase.
TopicOrder ==
    (Done /\ strategy = "topic") =>
        \A k \in DOMAIN chunks :
            LET places == Places(chunks[k])
                taken == UNION {Range(Places(chunks[n])) : n \in 1..(k - 1)}
            IN  /\ places # <<>>
                /\ \A n \in DOMAIN conversations :
                      n < places[1] => n \in taken
                /\ places[1] \notin taken
                /\ k > 1 => Places(chunks[k - 1])[1] < places[1]
                /\ \A q \in DOMAIN places :
                      q > 1 => places[q - 1] < places[q]

\* chunk_by_topic has returned the first and the third conversation in one
\* chunk and after it the second in a chunk of its own
TopicOrderWitness ==
    /\ Done /\ strategy = "topic"
    /\ Len(chunks) = 2
    /\ Places(chunks[1]) = <<1, 3>>
    /\ Places(chunks[2]) = <<2>>

\* C24: every entry that chunk_by_role has emitted or holds in the current
\* chunk, a packed group or a piece of a split group, carries
\* _chunked_by_role = true and a list of messages that is not empty and
\* whose messages have one role.
RoleEntriesMarked ==
    strategy = "role" =>
        \A entry \in Range(Entries(chunks)) \cup Range(current_chunk) :
            /\ entry.chunked_by_role
            /\ entry.has_messages
            /\ entry.messages # <<>>
            /\ \A q \in DOMAIN entry.messages :
                  entry.messages[q].role = entry.messages[1].role

\* chunk_by_role has returned a piece of a split group, whose chunk counts
\* the costs of its messages, and a chunk of packed groups
RoleEntriesWitness ==
    /\ Done /\ strategy = "role"
    /\ \E k \in DOMAIN chunks :
          /\ Len(chunks[k].conversations) = 1
          /\ chunks[k].token_count # EntryCosts(chunks[k])
    /\ \E k \in DOMAIN chunks :
          /\ Len(chunks[k].conversations) >= 1
          /\ chunks[k].token_count = EntryCosts(chunks[k])

\* C26: no strategy ever emits a chunk without entries, the flush of
\* chunk_by_size at lines 115-119, which tests nothing, included; and every
\* piece made by a split holds at least one message.
NoEmptyChunk ==
    \A k \in DOMAIN chunks :
        /\ chunks[k].conversations # <<>>
        /\ \A q \in DOMAIN chunks[k].conversations :
              LET entry == chunks[k].conversations[q]
              IN  (entry.chunked \/ entry.chunked_by_role) =>
                      entry.has_messages /\ entry.messages # <<>>

\* chunk_by_size has returned two chunks of whole conversations, the first
\* emitted by the flush at lines 115-119, and a piece of a split conversation
NoEmptyChunkWitness ==
    /\ Done /\ strategy = "size"
    /\ Len(chunks) >= 3
    /\ ~HasPiece(chunks[1]) /\ ~HasPiece(chunks[2])
    /\ \E k \in DOMAIN chunks : HasPiece(chunks[k])

\* the places, chunk and position, of the entries made of a conversation
EntriesOf(conv) ==
    {place \in (DOMAIN chunks) \X (1..(MaxMsgs + MaxConvs)) :
        /\ place[2] \in DOMAIN chunks[place[1]].conversations
        /\ chunks[place[1]].conversations[place[2]].id = conv.id}

\* C27: at the return of chunk_by_size every input conversation is
\* represented: one whose cost is at most max_tokens stands in exactly one
\* entry, unmodified and without marker; one whose cost exceeds max_tokens
\* stands in at least one entry marked _chunked, whatever its messages.
SizeRepresented ==
    (Done /\ strategy = "size") =>
        \A p \in DOMAIN conversations :
            LET conv == conversations[p]
                entry(place) == chunks[place[1]].conversations[place[2]]
            IN  IF ConvTokens(conv) <= max_tokens
                THEN /\ Cardinality(EntriesOf(conv)) = 1
                     /\ \A place \in EntriesOf(conv) :
                           entry(place) = conv /\ ~entry(place).chunked
                ELSE /\ EntriesOf(conv) # {}
                     /\ \A place \in EntriesOf(conv) : entry(place).chunked

\* C25: the document process_file writes carries, as total_conversations,
\* the number of conversations of the input file, whatever the strategy and
\* max_tokens, and, as total_chunks, the number of chunks it holds.
TotalsMatchInput ==
    \A w \in DOMAIN written :
        /\ written[w].content.total_chunks = Len(written[w].content.chunks)
        /\ written[w].content.total_conversations = Len(data.conversations)

\* C23: count_tokens(text) is the floor of len(text) / 4: the integer n
\* with 4n <= len(text) < 4n + 4; it is never negative, it is 0 for the
\* empty text and for every text of fewer than 4 characters; and the call
\* changes nothing but its result.
TokensAreFloor ==
    estimate # <<>> =>
        /\ estimate[1] \in Nat
        /\ 4 * estimate[1] <= Len(arg_text)
        /\ Len(arg_text) < 4 * estimate[1] + 4
        /\ Len(arg_text) < 4 => estimate[1] = 0
        /\ NoChunker /\ NoPair /\ NoApi

\* count_tokens has returned 1 for a text of 7 characters
TokensWitness == estimate = <<1>> /\ Len(arg_text) = 7

\* chunk_by_size taken as one step returns what its steps return
SizeCallAgrees ==
    (Done /\ strategy = "size") => chunks = SizeCall(conversations, max_tokens)

\* the document process_file writes when it runs alone on a file
DocumentAlone(path, name, budget) ==
    Document(SizeCall(Loaded(FileAt(path)).conversations, budget), path, name,
             budget)

\* C22: when two calls of process_file on different input files have both
\* ended, whatever the order of their steps, the output file of each call
\* that returned a name holds the document of its own input, as if the call
\* had run alone.
PairDoNotInterfere ==
    (\A k \in {1, 2} : invocations # <<>>
                       /\ invocations[k].pc \in {"returned", "failed"}) =>
        \A k \in {1, 2} :
            invocations[k].pc = "returned" =>
                output_dir[invocations[k].output_file]
                    = <<DocumentAlone(invocations[k].file_path,
                                      invocations[k].strategy,
                                      invocations[k].max_tokens)>>

\* C28: a task that cancel_injection_task or cancel_processing_task has
\* set to FAILED, the only writers of that status, is FAILED in every later
\* state: no step of a background task sets it to PROCESSING or COMPLETED.
CancelledStaysFailed ==
    [][/\ \A t \in DOMAIN injection_tasks :
             injection_tasks[t].status = FAILED
                 => injection_tasks'[t].status = FAILED
       /\ \A t \in DOMAIN processing_tasks :
             processing_tasks[t].status = FAILED
                 => processing_tasks'[t].status = FAILED]_vars

\* the injection task t has been asked for n conversation ids
InjectionCountsBounded(t) ==
    LET task == injection_tasks[t]
        frame == background_tasks[t]
        n == Len(frame.conversation_ids)
        sum == task.successful_injections + task.failed_injections
    IN  /\ sum <= n
        /\ task.successful_injections >= 0 /\ task.failed_injections >= 0
        /\ RatioLeq(Ratio(0, 1), task.progress)
        /\ RatioLeq(task.progress, Ratio(1, 1))
        /\ task.status = COMPLETED =>
              /\ sum = n
              /\ task.progress.num = task.progress.den
        /\ frame.pc \in {"sleep_call", "sleep_retry"} =>
              frame.attempt + 1 <= frame.retry_attempts

\* C30: for every injection task, successful_injections + failed_injections
\* is at most the number of requested conversation ids and the progress is
\* in [0, 1]; a COMPLETED task has counted every requested id and has the
\* progress 1.0; no conversation is attempted more than retry_attempts
\* times; and no step lowers a counter or the progress.
InjectionCounters ==
    /\ [](\A t \in DOMAIN injection_tasks : InjectionCountsBounded(t))
    /\ [][\A t \in DOMAIN injection_tasks :
             /\ injection_tasks'[t].successful_injections
                   >= injection_tasks[t].successful_injections
             /\ injection_tasks'[t].failed_injections
                   >= injection_tasks[t].failed_injections
             /\ RatioLeq(injection_tasks[t].progress,
                         injection_tasks'[t].progress)]_vars

\* an injection task asked for two conversations with two attempts each
\* has completed with one injected, one failed after both attempts, while a
\* second injection task is half way
InjectionCountersWitness ==
    /\ "t1" \in DOMAIN injection_tasks /\ "t2" \in DOMAIN injection_tasks
    /\ injection_tasks["t1"].status = COMPLETED
    /\ injection_tasks["t1"].successful_injections = 1
    /\ injection_tasks["t1"].failed_injections = 1
    /\ background_tasks["t1"].retry_attempts = 2
    /\ injection_tasks["t2"].progress = Ratio(1, 2)

\* C29: an export task that is COMPLETED carries a file_id that
\* export_files holds, and download_export never answers that the export
\* file was not found; a download of a task that is PENDING or PROCESSING is
\* answered with 400 and no content, a download of a COMPLETED task with the
\* stored file.
ExportDownloads ==
    /\ [](/\ \A t \in DOMAIN export_tasks :
                export_tasks[t].status = COMPLETED =>
                    /\ "file_id" \in DOMAIN export_tasks[t]
                    /\ export_tasks[t].file_id \in DOMAIN export_files
          /\ response.detail # "Export file not found")
    /\ [][(/\ response' # response
           /\ response'.endpoint = "download_export"
           /\ response'.task_id \in DOMAIN export_tasks) =>
              LET task == export_tasks[response'.task_id]
              IN  /\ task.status \in {PENDING, PROCESSING} =>
                        /\ response'.code = 400
                        /\ response'.content = <<>>
                  /\ task.status = COMPLETED =>
                        /\ response'.code = 200
                        /\ response'.content # <<>>
                        /\ response'.content[1].content
                              = export_files[task.file_id].content]_vars

\* download_export has answered with the file of a COMPLETED task while
\* another export is PROCESSING
ExportDownloadsWitness ==
    /\ response.endpoint = "download_export" /\ response.code = 200
    /\ export_tasks[response.task_id].status = COMPLETED
    /\ \E t \in DOMAIN export_tasks : export_tasks[t].status = PROCESSING

=============================================================================
